---- MODULE Spec2Model ----
(***************************************************************************)
(* A model of the rtty device agent (zhaojh329/rtty-go): the terminal      *)
(* session layer with its TTY counter, the per-terminal flow control, the  *)
(* heartbeat / reconnect loop, the file-transfer detection and download    *)
(* start, and the frame codec.                                             *)
(*                                                                         *)
(* Goroutines are modelled as program counters.  The dispatch task (the    *)
(* goroutine of RttyClient.Run) is dpc; every TermSession carries the      *)
(* position of its own reader task (TermSession.Run) in its pc field; the  *)
(* heartbeat timer callback is hbpc.  Sessions are anonymous heap objects, *)
(* so the live sessions are a bag of records; the sync.Map cli.sessions is *)
(* the inMap flag: sessions[sid] is the one session with that sid whose    *)
(* inMap is TRUE.  The unsynchronised cli.ntty++ / cli.ntty-- are a read   *)
(* step and a write step, so that updates can be lost as in the build.     *)
(***************************************************************************)
EXTENDS Integers, Sequences, FiniteSets, Bags, TLC

(***************************************************************************)
(* Program constants.                                                      *)
(***************************************************************************)
rttyTermLimit == 10
rttyHeartbeatTimeout == 3
ack_block == 4096
MinHeartbeat == 5
ReconnectBase == 5
ReconnectSpread == 10
RegisterDeadline == 5
MagicLen == 12
MaxPayload == 65535

(***************************************************************************)
(* Bounds of the model.                                                    *)
(***************************************************************************)
\* successful Logins in one run of the TTY-limit specification
MaxLogins == 11
\* sessions whose teardown (PTY exit, idle expiry, Logout) begins in one run
MaxEnds == 1
\* PTY reads in one run of the flow-control and Write specifications
MaxReads == 3
\* the largest configured heartbeat interval, in seconds
MaxHeartbeat == 6
\* attempts to connect in one run
MaxAttempts == 2

(***************************************************************************)
(* Byte strings, run-length encoded: a sequence of runs [b, n], n > 0,     *)
(* adjacent runs of different bytes.  Indexes are Go's, from 0.            *)
(***************************************************************************)
Rep(b, n) == IF n = 0 THEN << >> ELSE << [b |-> b, n |-> n] >>

RECURSIVE BLen(_)
BLen(s) == IF s = << >> THEN 0 ELSE s[1].n + BLen(Tail(s))

BCat(a, b) ==
    IF a = << >> THEN b
    ELSE IF b = << >> THEN a
    ELSE IF a[Len(a)].b = b[1].b
         THEN SubSeq(a, 1, Len(a) - 1)
              \o << [b |-> b[1].b, n |-> a[Len(a)].n + b[1].n] >>
              \o Tail(b)
         ELSE a \o b

RECURSIVE BAt(_, _)
BAt(s, i) == IF i < s[1].n THEN s[1].b ELSE BAt(Tail(s), i - s[1].n)

RECURSIVE BTake(_, _)
BTake(s, k) ==
    IF k = 0 \/ s = << >> THEN << >>
    ELSE IF k < s[1].n THEN << [b |-> s[1].b, n |-> k] >>
    ELSE << s[1] >> \o BTake(Tail(s), k - s[1].n)

RECURSIVE BDrop(_, _)
BDrop(s, k) ==
    IF k = 0 \/ s = << >> THEN s
    ELSE IF k < s[1].n THEN << [b |-> s[1].b, n |-> s[1].n - k] >> \o Tail(s)
    ELSE BDrop(Tail(s), k - s[1].n)

\* the bytes of a Go byte-slice literal
RECURSIVE Bytes(_)
Bytes(q) == IF q = << >> THEN << >> ELSE BCat(Rep(q[1], 1), Bytes(Tail(q)))

\* binary.NativeEndian (little endian on the supported targets), 32 bits
PutUint32LE(v) ==
    Bytes(<< v % 256, (v \div 256) % 256, (v \div 65536) % 256,
             (v \div 16777216) % 256 >>)
Uint32LE(s, i) ==
    BAt(s, i) + 256 * BAt(s, i + 1) + 65536 * BAt(s, i + 2)
    + 16777216 * BAt(s, i + 3)
\* binary.BigEndian, 32 bits
PutUint32BE(v) ==
    Bytes(<< (v \div 16777216) % 256, (v \div 65536) % 256,
             (v \div 256) % 256, v % 256 >>)
Uint32BE(s, i) ==
    16777216 * BAt(s, i) + 65536 * BAt(s, i + 1) + 256 * BAt(s, i + 2)
    + BAt(s, i + 3)

VARIABLES
    \* --- RttyClient
    cfg,              \* cli.cfg: heartbeat seconds, reconnect
    ntty,             \* cli.ntty
    terms,            \* the live TermSession objects (a bag of records)
    conn,             \* cli.conn: "none", "open", "closed"
    waitingHeartbeat, \* cli.waitingHeartbeat
    heartbeatTimer,   \* cli.heartbeatTimer: "nil", "armed" or "fired"; seconds left
    lastHeartbeat,    \* time.Since(cli.lastHeartbeat), in seconds, up to LongAgo
    \* --- tasks
    dpc,              \* the dispatch task: position, sid and value it works on
    hbpc,             \* the heartbeat timer callback: "idle", "send", "flag"
    \* --- the world
    lastFrame,        \* the last frame handed to WriteMsg
    host,             \* the helper side: last FIFO control message, signals,
                      \* files opened for writing
    \* --- history
    nlogin,           \* Logins answered with retCode 0
    nended,           \* sessions whose teardown has begun
    nread,            \* PTY reads returned to io.Copy
    answered,         \* a frame was handled since the last Heartbeat was sent
    hist,             \* the reconnect loop: attempts, exits, waits
    \* --- the codec on its own
    httpCons,         \* cli.httpCons and the tunnel tasks (a set of records)
    cmds,             \* rttyCmdSemaphore and the commands executing
    inWrite,          \* the frames that tasks inside the frame writer hold
    outbox,           \* what was handed to MsgReaderWriter.Write last
    wire,             \* the bytes a MsgReaderWriter wrote that were not read yet
    inbox             \* what MsgReaderWriter.Read returned last

\* the heartbeat and connection state, the clock and the reconnect history
loopVars == <<cfg, conn, heartbeatTimer, lastHeartbeat, hbpc, hist>>
\* what the Login / Logout handlers and a session's teardown leave alone
runVars == <<loopVars, nread>>
\* what only the end of a handler, the heartbeat callback and Close change
flagVars == <<waitingHeartbeat, answered>>
\* the byte stream between a writer and a reader
codecVars == <<outbox, wire, inbox>>
\* the tunnels, the commands and the tasks inside the frame writer
sideVars == <<httpCons, cmds, inWrite>>
vars == <<cfg, ntty, terms, conn, waitingHeartbeat, heartbeatTimer,
          lastHeartbeat, dpc, hbpc, lastFrame, host, nlogin, nended,
          nread, answered, hist, httpCons, cmds, inWrite,
          outbox, wire, inbox>>

\* a frame handed to WriteMsg: type, sid, a code byte and the data bytes
Frame(type, sid, code, data) ==
    [type |-> type, sid |-> sid, code |-> code, data |-> data]
NoFrame == Frame("none", 0, 0, << >>)
\* a nil *time.Timer
NoTimer == [st |-> "nil", left |-> 0]
\* the age of time.Time{}, and of every time at least a heartbeat period ago
LongAgo == MaxHeartbeat
\* no payload
NoData == [size |-> << >>, name |-> ""]
\* nothing written or read yet; Read's results on an error are 0 and nil
NoMsg == [role |-> 0, typ |-> 0, data |-> << >>, err |-> "nothing"]
\* no command reply written yet
NoReply == [token |-> 0, err |-> -1, code |-> 0, json |-> << >>,
            frame |-> << >>]
\* no command executing, no slot of rttyCmdSemaphore held, no reply sent
NoCmds == [held |-> 0, running |-> {}, last |-> NoReply, n |-> 0,
           look |-> "none"]
Idle == [pc |-> "idle", sid |-> 0, tmp |-> 0, data |-> NoData]
\* the reconnect loop so far: attempts begun, the reason of the last exit,
\* the delay drawn after it and the seconds slept since
NoHist == [attempts |-> 1, exit |-> "none", waited |-> 0, slept |-> 0,
           first |-> [typ |-> "none", code |-> 0]]
(***************************************************************************)
(* Sessions (rtty.go 418-425), terminals (terminal_unix.go 22-58) and file *)
(* contexts (file_unix.go 93-104).                                         *)
(***************************************************************************)
\* a nil *os.File; otherwise its path, "r" or "w", and the bytes left to read
NoFile == [path |-> << >>, mode |-> "nil", left |-> 0]
\* a *os.File for the helper's FIFO: "nil", "open" or "closed"
NoFifo == [pid |-> 0, st |-> "nil"]

\* &RttyFileContext{ses: s}
NewFc ==
    [busy |-> FALSE, file |-> NoFile, fifo |-> NoFifo, uid |-> 0, gid |-> 0,
     totalSize |-> 0, remainSize |-> 0, savepath |-> << >>]

\* handleLoginMsg: s := &TermSession{cli, sid, term}, with NewTerminal's
\* Terminal.  buf is the buffer io.Copy hands to Write; cond is the reader
\* task's place in the notify list of term.cond.  History: unacked, the bytes
\* sent in TermData frames that the broker has not acknowledged; dref, the
\* dispatch task holds this session in an unfinished handler.
NewSession(sid) ==
    [sid |-> sid, inMap |-> FALSE, pty |-> "open", timer |-> "unset",
     pc |-> "new", tmp |-> 0, wait_ack |-> 0, buf |-> << >>,
     cond |-> "none", unacked |-> 0, dref |-> FALSE, fc |-> NewFc]

Live == BagToSet(terms)

Put(b, r) == b (+) SetToBag({r})
Del(b, r) == b (-) SetToBag({r})
\* one session object changes state
Upd(b, r, r2) == Put(Del(b, r), r2)

LoadAny(sid) == {r \in Live : r.sid = sid}
\* cli.sessions.Load(sid): the sessions stored under sid (none or one)
Load(sid) == {r \in Live : r.sid = sid /\ r.inMap}

\* cli.sessions.LoadAndDelete(sid) on bag b
Unstore(b, sid) ==
    LET old == {r \in BagToSet(b) : r.sid = sid /\ r.inMap}
    IN IF old = {} THEN b
       ELSE LET o == CHOOSE r \in old : TRUE
            IN Upd(b, o, [o EXCEPT !.inMap = FALSE])

\* cli.sessions.Store(sid, s), s not yet in the bag: the entry under sid now
\* points to s
Store(b, sid, s) == Put(Unstore(b, sid), [s EXCEPT !.inMap = TRUE])

\* the teardown of s has begun, or one more may begin
MayEnd(s) == s.pty # "open" \/ nended < MaxEnds
Ended(s) == IF s.pty = "open" THEN nended + 1 ELSE nended

\* the helper side: ctl is the last control message received on a FIFO, the
\* n-th; killed, the helpers signalled; created, the paths the agent opened
\* with O_WRONLY|O_CREATE; written, the bytes it has written to such files;
\* sent, the payloads of the FileData frames sent since the last FileSend
NoHost == [ctl |-> [pid |-> 0, type |-> -1, data |-> NoData, n |-> 0],
           killed |-> {}, created |-> {}, written |-> 0, sent |-> << >>]

\* the handler returned nil: Run goes on to cli.waitingHeartbeat = false
\* (rtty.go 124-130) and back to ReadMsg
HandlerDone ==
    /\ dpc' = Idle
    /\ waitingHeartbeat' = FALSE
    /\ answered' = TRUE

(***************************************************************************)
(* The state in which the dispatch loop is entered: connected, registered, *)
(* startHeartbeat done (rtty.go 105-109).                                  *)
(***************************************************************************)
LoopEntry(c) ==
    /\ cfg = c
    /\ conn = "open"
    /\ waitingHeartbeat = FALSE
    /\ heartbeatTimer = [st |-> "armed", left |-> c.heartbeat]
    /\ lastHeartbeat = LongAgo
    /\ dpc = Idle
    /\ hbpc = "idle"
    /\ host = NoHost
    /\ nended = 0
    /\ nread = 0
    /\ answered = FALSE
    /\ httpCons = {}
    /\ cmds = NoCmds
    /\ inWrite = EmptyBag
    /\ outbox = NoMsg
    /\ wire = << >>
    /\ inbox = NoMsg
    /\ hist = [NoHist EXCEPT !.first = [typ |-> "Register", code |-> 0]]

\* no terminal yet
TtyInit ==
    /\ LoopEntry([heartbeat |-> MinHeartbeat, reconnect |-> FALSE])
    /\ ntty = 0
    /\ terms = EmptyBag
    /\ nlogin = 0
    /\ lastFrame = NoFrame

(***************************************************************************)
(* handleLoginMsg (rtty.go 303-339), on the dispatch task.                 *)
(***************************************************************************)
LoginLimitOffByOne == ntty > rttyTermLimit
LoginLimitUnchecked == FALSE
LoginLimitReached == ntty = rttyTermLimit

\* a handler that counts every Login answered, whatever NewTerminal returned
LoginCheckCounted(S, maxLogins) ==
    /\ dpc.pc = "idle"
    /\ conn = "open"
    /\ \E sid \in S :
        \/ /\ LoginLimitReached
           /\ lastFrame' = Frame("Login", sid, 1, << >>)
           /\ HandlerDone
           /\ UNCHANGED <<codecVars, sideVars, ntty, terms, nlogin, nended, host, runVars>>
        \/ /\ ~LoginLimitReached
           /\ lastFrame' = Frame("Login", sid, 1, << >>)
           /\ ntty' = ntty + 1
           /\ HandlerDone
           /\ UNCHANGED <<codecVars, sideVars, terms, nlogin, nended, host, runVars>>
        \/ /\ ~LoginLimitReached
           /\ nlogin < maxLogins
           /\ terms' = Store(terms, sid, NewSession(sid))
           /\ dpc' = [pc |-> "login_read", sid |-> sid, tmp |-> 0, data |-> NoData]
           /\ UNCHANGED <<codecVars, sideVars, ntty, lastFrame, nlogin, nended, host, runVars,
                          flagVars>>

\* the check of ntty, NewTerminal and sessions.Store; the broker uses the
\* sids S and has at most maxLogins Logins accepted
LoginCheck(S, maxLogins) ==
    /\ dpc.pc = "idle"
    /\ conn = "open"
    /\ \E sid \in S :
        \/ /\ LoginLimitReached
           /\ lastFrame' = Frame("Login", sid, 1, << >>)
           /\ HandlerDone
           /\ UNCHANGED <<codecVars, sideVars, ntty, terms, nlogin, nended, host, runVars>>
        \/ /\ ~LoginLimitReached
           \* NewTerminal fails: pty.Start returned an error
           /\ lastFrame' = Frame("Login", sid, 1, << >>)
           /\ HandlerDone
           /\ UNCHANGED <<codecVars, sideVars, ntty, terms, nlogin, nended, host, runVars>>
        \/ /\ ~LoginLimitReached
           /\ nlogin < maxLogins
           /\ terms' = Store(terms, sid, NewSession(sid))
           /\ dpc' = [pc |-> "login_read", sid |-> sid, tmp |-> 0, data |-> NoData]
           /\ UNCHANGED <<codecVars, sideVars, ntty, lastFrame, nlogin, nended, host, runVars,
                          flagVars>>

\* cli.ntty++ reads ...
LoginIncRead ==
    /\ dpc.pc = "login_read"
    /\ dpc' = [dpc EXCEPT !.pc = "login_write", !.tmp = ntty]
    /\ UNCHANGED <<codecVars, sideVars, ntty, terms, lastFrame, nlogin, nended, host, runVars,
                   flagVars>>

\* ... and writes; go s.Run(cli); WriteMsg(Login, sid, 0)
LoginIncWrite ==
    /\ dpc.pc = "login_write"
    /\ ntty' = dpc.tmp + 1
    /\ \E s \in {r \in Live : r.pc = "new"} :
          terms' = Upd(terms, s, [s EXCEPT !.pc = "start"])
    /\ lastFrame' = Frame("Login", dpc.sid, 0, << >>)
    /\ nlogin' = nlogin + 1
    /\ HandlerDone
    /\ UNCHANGED <<codecVars, sideVars, nended, host, runVars>>

(***************************************************************************)
(* handleLogoutMsg (rtty.go 341-363), on the dispatch task.                *)
(***************************************************************************)
\* s.timer.Stop(); s.timer = nil, under s.mu
StopTimer(t) == IF t = "unset" THEN "unset" ELSE "nil"

\* LoadAndDelete; timer.Stop; term.Close
LogoutLAD(S) ==
    /\ dpc.pc = "idle"
    /\ conn = "open"
    /\ \E sid \in S :
        IF Load(sid) = {}
        THEN /\ HandlerDone
             /\ UNCHANGED <<codecVars, sideVars, ntty, terms, lastFrame, nlogin, nended, host,
                            runVars>>
        ELSE \E s \in Load(sid) :
               /\ MayEnd(s)
               /\ terms' = Upd(terms, s,
                     [s EXCEPT !.inMap = FALSE, !.pty = "closed",
                               !.timer = StopTimer(s.timer)])
               /\ dpc' = [pc |-> "logout_read", sid |-> sid, tmp |-> 0, data |-> NoData]
               /\ nended' = Ended(s)
               /\ UNCHANGED <<codecVars, sideVars, ntty, lastFrame, nlogin, host, runVars,
                              flagVars>>

\* cli.ntty-- reads ...
LogoutDecRead ==
    /\ dpc.pc = "logout_read"
    /\ dpc' = [dpc EXCEPT !.pc = "logout_write", !.tmp = ntty]
    /\ UNCHANGED <<codecVars, sideVars, ntty, terms, lastFrame, nlogin, nended, host, runVars,
                   flagVars>>

\* ... and writes
LogoutDecWrite ==
    /\ dpc.pc = "logout_write"
    /\ ntty' = dpc.tmp - 1
    /\ HandlerDone
    /\ UNCHANGED <<codecVars, sideVars, terms, lastFrame, nlogin, nended, host, runVars>>

(***************************************************************************)
(* TermSession.Run and TermSession.close (rtty.go 443-483): the reader     *)
(* task of a session.                                                      *)
(***************************************************************************)
\* s.timer = time.AfterFunc(rttyTermTimeout, ...)
RunStart ==
    \E s \in Live :
        /\ s.pc = "start"
        /\ terms' = Upd(terms, s, [s EXCEPT !.pc = "read", !.timer = "armed"])
        /\ UNCHANGED <<codecVars, sideVars, ntty, dpc, lastFrame, nlogin, nended, host, runVars,
                       flagVars>>

\* the login process ends: the PTY reads end of file from now on
PtyExit ==
    \E s \in Live :
        /\ s.pty = "open"
        /\ s.pc # "new"
        /\ MayEnd(s)
        /\ terms' = Upd(terms, s, [s EXCEPT !.pty = "eof"])
        /\ nended' = Ended(s)
        /\ UNCHANGED <<codecVars, sideVars, ntty, dpc, lastFrame, nlogin, host, runVars,
                       flagVars>>

\* the idle timer fires (rtty.go 445-448): s.term.Close()
IdleExpire ==
    \E s \in Live :
        /\ s.timer = "armed"
        /\ MayEnd(s)
        /\ terms' = Upd(terms, s, [s EXCEPT !.pty = "closed", !.timer = "fired"])
        /\ nended' = Ended(s)
        /\ UNCHANGED <<codecVars, sideVars, ntty, dpc, lastFrame, nlogin, host, runVars,
                       flagVars>>

\* a close that does not look at what LoadAndDelete returned
CloseLADBlind ==
    \E s \in Live :
        /\ s.pc = "read"
        /\ s.pty # "open"
        /\ terms' = Upd(terms, s, [s EXCEPT !.pc = "dec_read", !.pty = "closed",
                                            !.timer = StopTimer(s.timer),
                                            !.inMap = FALSE])
        /\ lastFrame' = Frame("Logout", s.sid, 0, << >>)
        /\ UNCHANGED <<codecVars, sideVars, ntty, dpc, nlogin, nended, host, runVars,
                       flagVars>>

\* io.Copy returns; close: LoadAndDelete(s.sid), and when an entry was
\* loaded: timer.Stop, WriteMsg(Logout, sid), term.Close
CloseLAD ==
    \E s \in Live :
        /\ s.pc = "read"
        /\ s.pty # "open"
        /\ IF Load(s.sid) = {}
           THEN /\ terms' = Del(terms, s)
                /\ UNCHANGED lastFrame
           ELSE /\ LET s2 == [s EXCEPT !.pc = "dec_read", !.pty = "closed",
                                       !.timer = StopTimer(s.timer),
                                       !.inMap = FALSE]
                   IN terms' = IF s.inMap THEN Upd(terms, s, s2)
                               ELSE Upd(Unstore(terms, s.sid), s, s2)
                /\ lastFrame' = Frame("Logout", s.sid, 0, << >>)
        /\ UNCHANGED <<codecVars, sideVars, ntty, dpc, nlogin, nended, host, runVars,
                       flagVars>>

\* cli.ntty-- reads ...
CloseDecRead ==
    \E s \in Live :
        /\ s.pc = "dec_read"
        /\ terms' = Upd(terms, s, [s EXCEPT !.pc = "dec_write", !.tmp = ntty])
        /\ UNCHANGED <<codecVars, sideVars, ntty, dpc, lastFrame, nlogin, nended, host, runVars,
                       flagVars>>

\* ... and writes; the reader task ends
CloseDecWrite ==
    \E s \in Live :
        /\ s.pc = "dec_write"
        /\ ntty' = s.tmp - 1
        /\ terms' = Del(terms, s)
        /\ UNCHANGED <<codecVars, sideVars, dpc, lastFrame, nlogin, nended, host, runVars,
                       flagVars>>

(***************************************************************************)
(* The TTY limit: the broker logs terminals in and out under one sid,      *)
(* PTYs end and idle timers expire; the PTYs print nothing.                *)
(***************************************************************************)
CapSids == {1}

CapNext ==
    \/ LoginCheck(CapSids, MaxLogins)
    \/ LoginIncRead
    \/ LoginIncWrite
    \/ LogoutLAD(CapSids)
    \/ LogoutDecRead
    \/ LogoutDecWrite
    \/ RunStart
    \/ PtyExit
    \/ IdleExpire
    \/ CloseLAD
    \/ CloseDecRead
    \/ CloseDecWrite

CapSpec == TtyInit /\ [][CapNext]_vars

OpenPtys == BagCardinality([r \in {x \in Live : x.pty = "open"} |-> terms[r]])

\* C1: a Login handled while ntty is 10 is answered Login(sid, 1), spawns no
\* PTY and stores no session; and after ten accepted Logins with no session
\* ended, ntty is 10 and exactly ten PTYs exist, so the eleventh Login is
\* such a step.
C1_LoginRejectedAtLimit ==
    /\ [][(LoginCheck(CapSids, MaxLogins) /\ ntty = rttyTermLimit)
            => /\ lastFrame'.type = "Login" /\ lastFrame'.code = 1
               /\ terms' = terms /\ ntty' = ntty /\ dpc' = Idle]_vars
    /\ []((nlogin = rttyTermLimit /\ nended = 0)
            => (ntty = rttyTermLimit /\ OpenPtys = rttyTermLimit
                /\ BagCardinality(terms) = rttyTermLimit))

\* the eleventh Login has been rejected with ten PTYs running
C1_Witness ==
    /\ nlogin = rttyTermLimit /\ nended = 0 /\ ntty = rttyTermLimit
    /\ OpenPtys = rttyTermLimit
    /\ lastFrame = Frame("Login", 1, 1, << >>)

\* C2: cli.ntty never exceeds 10, whatever the interleaving of the Login and
\* Logout handlers with the reader tasks' close.
C2_NttyAtMostTen == ntty <= rttyTermLimit

\* ntty is 10 while a reader task sits between the read and the write of its
\* cli.ntty--, holding a stale value
C2_Witness ==
    /\ ntty = rttyTermLimit
    /\ \E s \in Live : s.pc = "dec_write" /\ s.tmp < ntty

(***************************************************************************)
(* The file-transfer helper's side, as far as the agent sees it            *)
(* (file_unix.go 106-193, 319-329).                                        *)
(***************************************************************************)
MsgTypeFileCtlRequestAccept == 0
MsgTypeFileCtlInfo == 2
MsgTypeFileCtlBusy == 3
MsgTypeFileCtlNoSpace == 5
MsgTypeFileCtlErrExist == 6
MsgTypeFileCtlErr == 7
MsgTypeFileSend == 0
MsgTypeFileRecv == 1
MsgTypeFileInfo == 2

\* RttyFileMagic[0..2]
RttyFileMagic == << 182, 188, 189 >>
DirRecv == 82   \* 'R'

\* ctx.sendControlMsg(typ, data): ctx.fifo.Write; the write fails, and the
\* helper receives nothing, when the handle is nil or closed
sendControlMsg(fc, h, typ, data) ==
    IF fc.fifo.st = "open"
    THEN [h EXCEPT !.ctl = [pid |-> fc.fifo.pid, type |-> typ, data |-> data,
                            n |-> h.ctl.n + 1]]
    ELSE h

\* fifo.Close() when ctx.fifo is that handle
CloseFifo(fc) == [fc EXCEPT !.fifo.st = "closed"]

resetHandles(fc) == [fc EXCEPT !.file = NoFile, !.fifo = NoFifo]
\* ctx.reset()
reset(fc) == [fc EXCEPT !.file = NoFile, !.fifo = NoFifo, !.busy = FALSE]

LengthOnly(data) == BLen(data) = MagicLen
\* the first two tests of detect: is this buffer a transfer request?
IsMagic(data) ==
    /\ BLen(data) = MagicLen
    /\ BAt(data, 0) = RttyFileMagic[1]
    /\ BAt(data, 1) = RttyFileMagic[2]
    /\ BAt(data, 2) = RttyFileMagic[3]

\* what the host answers to the probes of detect, in the order detect makes
\* them: uid, gid, FIFO open; then cwd ('R'), or readlink and open (else)
Probes == {"nouid", "nogid", "nofifo", "nocwd", "nolink", "noopen", "ok"}

Cwd == << "home" >>
Src == << "home", "src" >>
SrcData == Bytes(<< 104, 105 >>)
\* len(ctx.buf)
FileBufSize == 64512
\* two more files of the host: one of two full buffers and three bytes more,
\* and an empty one
Big == << "home", "big" >>
BigData == BCat(Rep(97, FileBufSize),
                BCat(Rep(98, FileBufSize), Bytes(<< 99, 100, 101 >>)))
Empty == << "home", "empty" >>
\* os.Readlink("/proc/<pid>/fd/<fd>"): the file the helper holds open as fd
Link(fd) == IF fd = 6 THEN Big ELSE IF fd = 7 THEN Empty ELSE Src
\* the bytes of the host's file at path
FileContent(path) ==
    IF path = Big THEN BigData ELSE IF path = Empty THEN << >> ELSE SrcData
\* filepath.Base(path)
Base(path) == << path[Len(path)] >>
UidOf(pid) == 1000 + pid

\* detect(data) once the buffer is a transfer request; env is the host's
\* answer.  Gives the new file context, host and last frame.
detected(s, data, env, h, f) ==
    LET pid == Uint32LE(data, 4)
        fc0 == s.fc
        fc1 == [fc0 EXCEPT !.fifo = [pid |-> pid, st |-> "open"]]
        kill == [fc |-> fc0, h |-> [h EXCEPT !.killed = @ \cup {pid}], f |-> f]
        fail == [fc |-> CloseFifo(fc1),
                 h |-> sendControlMsg(fc1, h, MsgTypeFileCtlErr, NoData),
                 f |-> f]
    IN IF env \in {"nouid", "nogid", "nofifo"} THEN kill
       ELSE IF fc0.busy
       THEN [fc |-> CloseFifo(fc1),
             h |-> sendControlMsg(fc1, h, MsgTypeFileCtlBusy, NoData),
             f |-> f]
       ELSE IF BAt(data, 3) = DirRecv
       THEN IF env = "nocwd" THEN fail
            ELSE [fc |-> [fc1 EXCEPT !.savepath = Cwd,
                                     !.uid = UidOf(pid),
                                     !.gid = UidOf(pid), !.busy = TRUE],
                  h |-> sendControlMsg(fc1, h, MsgTypeFileCtlRequestAccept, NoData),
                  f |-> Frame("File", s.sid, MsgTypeFileRecv, << >>)]
       ELSE IF env = "nolink" THEN fail
       ELSE IF env = "noopen" THEN fail   \* after RequestAccept: Err is the last
       ELSE LET path == Link(Uint32LE(data, 8))
                size == BLen(FileContent(path))
            IN [fc |-> [fc1 EXCEPT !.file = [path |-> path, mode |-> "r",
                                             left |-> size],
                                   !.totalSize = size,
                                   !.remainSize = size,
                                   !.busy = TRUE],
                h |-> [sendControlMsg(fc1, h, MsgTypeFileCtlRequestAccept,
                                      NoData) EXCEPT !.sent = << >>],
                f |-> Frame("File", s.sid, MsgTypeFileSend, Base(path))]

(***************************************************************************)
(* io.Copy(s, s.term) and TermSession.Write (rtty.go 427-441, 451), with   *)
(* Terminal.WaitAck (terminal_unix.go 104-114), on the session's reader    *)
(* task.                                                                   *)
(***************************************************************************)
\* a session logged in and running: Login handled, Run started
Running(sid) ==
    [NewSession(sid) EXCEPT !.inMap = TRUE, !.pc = "read", !.timer = "armed"]

\* s.term.Read returns a buffer
PtyRead(bufs, maxReads) ==
    \E s \in Live, buf \in bufs :
        /\ s.pc = "read"
        /\ s.pty = "open"
        /\ nread < maxReads
        /\ nread' = nread + 1
        /\ terms' = Upd(terms, s, [s EXCEPT !.pc = "write", !.buf = buf])
        /\ UNCHANGED <<codecVars, sideVars, ntty, dpc, lastFrame, nlogin, nended, host, loopVars,
                       flagVars>>

\* s.active(): timer.Reset when the timer is not nil
active(t) == IF t \in {"armed", "fired"} THEN "armed" ELSE t

\* Write: s.active(); s.fc.detect(buf), which consumes a transfer request
WriteDetect ==
    \E s \in Live :
        /\ s.pc = "write"
        /\ IF IsMagic(s.buf)
           THEN \E env \in Probes :
                   LET d == detected(s, s.buf, env, host, lastFrame)
                   IN /\ terms' = Upd(terms, s,
                                      [s EXCEPT !.pc = "read", !.fc = d.fc,
                                                !.timer = active(s.timer)])
                      /\ host' = d.h
                      /\ lastFrame' = d.f
           ELSE /\ terms' = Upd(terms, s, [s EXCEPT !.pc = "send",
                                                    !.timer = active(s.timer)])
                /\ UNCHANGED <<codecVars, sideVars, host, lastFrame>>
        /\ UNCHANGED <<codecVars, sideVars, ntty, dpc, nlogin, nended, runVars, flagVars>>

\* s.cli.WriteMsg(proto.MsgTypeTermData, s.sid, buf)
WriteSend ==
    \E s \in Live :
        /\ s.pc = "send"
        /\ lastFrame' = Frame("TermData", s.sid, 0, s.buf)
        /\ terms' = Upd(terms, s, [s EXCEPT !.pc = "add",
                                            !.unacked = @ + BLen(s.buf)])
        /\ UNCHANGED <<codecVars, sideVars, ntty, dpc, nlogin, nended, host, runVars,
                       flagVars>>

NeverOver(v) == FALSE
OverTwice(v) == v > 2 * ack_block
\* newWaitAck > t.ack_block
OverBlock(v) == v > ack_block

\* WaitAck: newWaitAck := t.wait_ack.Add(len); return at once, or cond.L.Lock
WaitAckAdd ==
    \E s \in Live :
        /\ s.pc = "add"
        /\ LET new == s.wait_ack + BLen(s.buf)
           IN terms' = Upd(terms, s,
                  IF OverBlock(new)
                  THEN [s EXCEPT !.wait_ack = new, !.pc = "check"]
                  ELSE [s EXCEPT !.wait_ack = new, !.pc = "read"])
        /\ UNCHANGED <<codecVars, sideVars, ntty, dpc, lastFrame, nlogin, nended, host, runVars,
                       flagVars>>

\* for t.wait_ack.Load() > t.ack_block: leave the loop, unlock and return,
\* or go on to cond.Wait
WaitAckCheck ==
    \E s \in Live :
        /\ s.pc = "check"
        /\ terms' = Upd(terms, s,
               IF OverBlock(s.wait_ack)
               THEN [s EXCEPT !.pc = "wait"]
               ELSE [s EXCEPT !.pc = "read"])
        /\ UNCHANGED <<codecVars, sideVars, ntty, dpc, lastFrame, nlogin, nended, host, runVars,
                       flagVars>>

\* cond.Wait: the task enters the notify list, unlocks and parks
WaitAckPark ==
    \E s \in Live :
        /\ s.pc = "wait"
        /\ terms' = Upd(terms, s, [s EXCEPT !.pc = "parked", !.cond = "waiting"])
        /\ UNCHANGED <<codecVars, sideVars, ntty, dpc, lastFrame, nlogin, nended, host, runVars,
                       flagVars>>

\* cond.Wait returns after a Signal: lock again and test again
WaitAckWake ==
    \E s \in Live :
        /\ s.pc = "parked"
        /\ s.cond = "notified"
        /\ terms' = Upd(terms, s, [s EXCEPT !.pc = "check", !.cond = "none"])
        /\ UNCHANGED <<codecVars, sideVars, ntty, dpc, lastFrame, nlogin, nended, host, runVars,
                       flagVars>>

(***************************************************************************)
(* handleAckMsg (rtty.go 404-416) and Terminal.Ack (terminal_unix.go       *)
(* 99-102), on the dispatch task.  The broker acknowledges bytes it was    *)
(* sent.                                                                   *)
(***************************************************************************)
\* sessions.Load(sid); t.wait_ack.Add(-int32(n))
AckAdd(S, lens) ==
    /\ dpc.pc = "idle"
    /\ conn = "open"
    /\ \E sid \in S, n \in lens :
        IF Load(sid) = {}
        THEN /\ HandlerDone
             /\ UNCHANGED <<codecVars, sideVars, ntty, terms, lastFrame, nlogin, nended, host, runVars>>
        ELSE \E s \in Load(sid) :
             /\ n <= s.unacked
             /\ terms' = Upd(terms, s, [s EXCEPT !.wait_ack = @ - n,
                                                 !.unacked = @ - n,
                                                 !.dref = TRUE])
             /\ dpc' = [pc |-> "ack_signal", sid |-> sid, tmp |-> 0, data |-> NoData]
             /\ UNCHANGED <<codecVars, sideVars, ntty, lastFrame, nlogin, nended, host, runVars,
                            flagVars>>

\* t.cond.Signal(): wakes a task in the notify list, if there is one
Signal(c) == IF c = "waiting" THEN "notified" ELSE c

AckSignal ==
    /\ dpc.pc = "ack_signal"
    /\ LET held == {s \in Live : s.dref}
       IN IF held = {} THEN UNCHANGED terms
          ELSE \E s \in held :
                 terms' = Upd(terms, s, [s EXCEPT !.cond = Signal(s.cond),
                                                  !.dref = FALSE])
    /\ HandlerDone
    /\ UNCHANGED <<codecVars, sideVars, ntty, lastFrame, nlogin, nended, host, runVars>>

(***************************************************************************)
(* Flow control: one terminal prints, the broker acknowledges.             *)
(***************************************************************************)
FlowSids == {1}
\* PTY output that is no transfer request, up to more than ack_block bytes
FlowBufs == {Rep(65, 96), Rep(65, 4000), Rep(65, 5000)}
AckLens == {96, 1000, 4000, 5000}

FlowInit ==
    /\ LoopEntry([heartbeat |-> MinHeartbeat, reconnect |-> FALSE])
    /\ ntty = 1
    /\ terms = SetToBag({Running(1)})
    /\ nlogin = 1
    /\ lastFrame = Frame("Login", 1, 0, << >>)

FlowNext ==
    \/ PtyRead(FlowBufs, MaxReads)
    \/ WriteDetect
    \/ WriteSend
    \/ WaitAckAdd
    \/ WaitAckCheck
    \/ WaitAckPark
    \/ WaitAckWake
    \/ AckAdd(FlowSids, AckLens)
    \/ AckSignal

FlowSpec == FlowInit /\ [][FlowNext]_vars

\* C3: a reader task parked in cond.Wait has been woken as soon as Acks have
\* brought the counter to at most 4096: with no Ack in progress, a task still
\* waiting for a Signal has a counter above 4096, so that no further Ack is
\* needed to release it.
C3_ReleasedBySufficientAck ==
    \A s \in Live :
        (s.pc = "parked" /\ s.cond = "waiting" /\ dpc = Idle)
            => s.wait_ack > ack_block

\* C4: WaitAck adds len to the counter and returns at once iff the new value
\* is at most 4096; from the waiting path it returns only on a counter value
\* of at most 4096; so whenever the reader task is before its next send, the
\* counter is at most 4096.
C4_WaitAckReturns ==
    /\ [][\A s \in Live : \A s2 \in BagToSet(terms') :
            /\ (s.pc = "add" /\ s2.pc # "add")
                 => /\ s2.wait_ack = s.wait_ack + BLen(s.buf)
                    /\ s2.pc \in {"read", "check"}
                    /\ (s2.pc = "read") <=> (s2.wait_ack <= ack_block)
            /\ (s.pc = "check" /\ s2.pc # "check")
                 => /\ s2.pc \in {"read", "wait"}
                    /\ (s2.pc = "read") <=> (s2.wait_ack <= ack_block)
            /\ (s.pc \in {"wait", "parked"}) => s2.pc \in {"wait", "parked", "check"}
         ]_vars
    /\ [](\A s \in Live : s.pc \in {"read", "write", "send"} => s.wait_ack <= ack_block)

\* the reader task is in the waiting path, has sent two frames or more, and
\* the counter has come down to at most 4096: WaitAck is about to return
C4_Witness ==
    \E s \in Live : s.pc = "check" /\ s.wait_ack <= ack_block /\ nread > 1
                    /\ s.unacked > 0

\* C5 (as stated): the bytes a session has sent in TermData frames and the
\* broker has not acknowledged are at most 4096.
C5_UnackedAtMost4096 == \A s \in Live : s.unacked <= ack_block

\* C5 (amended): when a TermData frame is sent, the session's sent and
\* unacknowledged bytes are at most 4096; the frame is counted only after it
\* was sent, so the unacknowledged bytes are at most 4096 plus the length of
\* the last frame.
C5_UnackedWindow ==
    \A s \in Live :
        /\ s.pc \in {"read", "write", "send"} => s.unacked <= ack_block
        /\ s.unacked <= ack_block + BLen(s.buf)
        /\ s.wait_ack = IF s.pc = "add" THEN s.unacked - BLen(s.buf) ELSE s.unacked

\* the reader task is blocked with 9000 bytes sent and unacknowledged
C5_Witness ==
    \E s \in Live : s.pc = "parked" /\ s.unacked = 9000

(***************************************************************************)
(* Write: PTY output around the transfer request, 12 bytes B6 BC BD dir    *)
(* pid fd.                                                                 *)
(***************************************************************************)
Request(a, b, c, dir, pid, fd) ==
    BCat(BCat(Bytes(<< a, b, c, dir >>), PutUint32LE(pid)), PutUint32LE(fd))

WriteBufs ==
    { Request(182, 188, 189, 82, 7, 0),      \* 'R'
      Request(182, 188, 189, 83, 300, 5),    \* 'S'
      Request(182, 188, 189, 0, 7, 0),       \* another direction byte
      Request(183, 188, 189, 82, 7, 0),
      Request(182, 189, 189, 82, 7, 0),
      Request(182, 188, 188, 83, 7, 0),
      BTake(Request(182, 188, 189, 82, 7, 0), 11),
      BCat(Request(182, 188, 189, 82, 7, 0), Rep(0, 1)),
      Bytes(<< 182, 188, 189 >>),
      BCat(Bytes(<< 182, 188, 189 >>), Rep(65, 4997)) }

WriteNext ==
    \/ PtyRead(WriteBufs, MaxReads)
    \/ WriteDetect
    \/ WriteSend
    \/ WaitAckAdd
    \/ WaitAckCheck
    \/ WaitAckPark
    \/ WaitAckWake
    \/ AckAdd(FlowSids, {4000})
    \/ AckSignal

WriteSpec == FlowInit /\ [][WriteNext]_vars

\* C8: Write forwards the buffer as one TermData frame with exactly its bytes
\* and counts its length in WaitAck, unless it is 12 bytes long and starts
\* B6 BC BD; such a buffer is consumed: no TermData frame, nothing counted,
\* whatever its direction byte and whatever the probes of detect answer.
C8_WriteForwardsOrConsumes ==
    /\ [][\A s \in Live : \A s2 \in BagToSet(terms') :
            LET request == /\ BLen(s.buf) = 12 /\ BAt(s.buf, 0) = 182
                           /\ BAt(s.buf, 1) = 188 /\ BAt(s.buf, 2) = 189
            IN /\ (s.pc = "write" /\ s2.pc # "write")
                    => /\ s2.wait_ack = s.wait_ack /\ s2.unacked = s.unacked
                       /\ IF request
                          THEN /\ s2.pc = "read"
                               /\ \/ lastFrame' = lastFrame
                                  \/ lastFrame'.type = "File"
                          ELSE /\ s2.pc = "send" /\ s2.buf = s.buf
                               /\ lastFrame' = lastFrame
               /\ (s.pc = "send" /\ s2.pc # "send")
                    => /\ s2.pc = "add" /\ s2.buf = s.buf
                       /\ lastFrame' = Frame("TermData", s.sid, 0, s.buf)
               /\ (s.pc = "add" /\ s2.pc # "add")
                    => s2.wait_ack = s.wait_ack + BLen(s.buf)
         ]_vars
    /\ [](\A s \in Live :
            s.pc \in {"send", "add"}
                => ~(/\ BLen(s.buf) = 12 /\ BAt(s.buf, 0) = 182
                     /\ BAt(s.buf, 1) = 188 /\ BAt(s.buf, 2) = 189))

\* a request with a direction byte that is neither 'R' nor 'S' was consumed
\* although the helper's uid could not be read: the helper was signalled and
\* no frame was sent
C8_Witness ==
    \E s \in Live :
        /\ s.pc = "read" /\ s.buf = Request(182, 188, 189, 0, 7, 0)
        /\ host.killed = {7}
        /\ lastFrame = Frame("Login", 1, 0, << >>)
        /\ s.unacked = 0 /\ ~s.fc.busy

(***************************************************************************)
(* RttyClient.Run (rtty.go 60-132): connect, register, dispatch; Close and *)
(* the reconnect delay in the deferred function.  The task of Run is dpc;  *)
(* in "await" and "sleep" its tmp is the seconds left.                     *)
(***************************************************************************)
At(pc, t) == [pc |-> pc, sid |-> 0, tmp |-> t, data |-> NoData]

\* a return from Run: the deferred function starts with cli.Close()
Exit(why) ==
    /\ dpc' = At("close", 0)
    /\ hist' = [hist EXCEPT !.exit = why]

\* cli.Connect()
Connect ==
    /\ dpc.pc = "connect"
    /\ \/ /\ conn' = "open"
          /\ dpc' = At("register", 0)
          /\ UNCHANGED hist
       \/ /\ Exit("connect")
          /\ UNCHANGED conn
    /\ UNCHANGED <<codecVars, sideVars, cfg, ntty, terms, heartbeatTimer, lastHeartbeat, hbpc,
                   lastFrame, host, nlogin, nended, nread, flagVars>>

\* cli.Register(), then SetReadDeadline(now + 5 s)
Register ==
    /\ dpc.pc = "register"
    /\ \/ /\ lastFrame' = Frame("Register", 0, 0, << >>)
          /\ dpc' = At("await", RegisterDeadline)
          /\ UNCHANGED hist
       \/ /\ Exit("register")
          /\ UNCHANGED lastFrame
    /\ UNCHANGED <<codecVars, sideVars, cfg, ntty, terms, conn, heartbeatTimer, lastHeartbeat, hbpc,
                   host, nlogin, nended, nread, flagVars>>

FirstTypes == {"Register", "Heartbeat"}

\* a first frame of type Register is taken whatever its status byte
AcceptedAnyCode(typ, regCode) == typ = "Register"
\* typ == proto.MsgTypeRegister and data[0] == 0 (rtty.go 92-101)
Accepted(typ, regCode) == typ = "Register" /\ regCode = 0

\* the first ReadMsg: an error, the deadline, another type, a status byte;
\* after Register with status 0, startHeartbeat (rtty.go 255-263) and the loop
AwaitRegister ==
    /\ dpc.pc = "await"
    /\ \/ /\ dpc.tmp = 0
          /\ Exit("missing")
          /\ UNCHANGED <<codecVars, sideVars, heartbeatTimer, lastHeartbeat>>
       \/ /\ Exit("read")
          /\ UNCHANGED <<codecVars, sideVars, heartbeatTimer, lastHeartbeat>>
       \/ /\ dpc.tmp > 0
          /\ \E typ \in FirstTypes, regCode \in {0, 1} :
               LET seen == [hist EXCEPT !.first = [typ |-> typ, code |-> regCode]]
               IN IF ~Accepted(typ, regCode)
                  THEN /\ dpc' = At("close", 0)
                       /\ hist' = [seen EXCEPT !.exit = IF typ # "Register"
                                                        THEN "first"
                                                        ELSE "rejected"]
                       /\ UNCHANGED <<codecVars, sideVars, heartbeatTimer,
                                      lastHeartbeat>>
                  ELSE /\ lastHeartbeat' = LongAgo
                       /\ heartbeatTimer' = [st |-> "armed", left |-> cfg.heartbeat]
                       /\ dpc' = Idle
                       /\ hist' = seen
    /\ UNCHANGED <<codecVars, sideVars, cfg, ntty, terms, conn, hbpc, lastFrame, host, nlogin,
                   nended, nread, flagVars>>

\* ReadMsg fails in the loop: the broker or the heartbeat callback closed
\* the connection, or a frame is short
ReadError ==
    /\ dpc.pc = "idle"
    /\ Exit("read")
    /\ UNCHANGED <<codecVars, sideVars, cfg, ntty, terms, conn, heartbeatTimer, lastHeartbeat, hbpc,
                   lastFrame, host, nlogin, nended, nread, flagVars>>

\* a type byte without a handler
UnknownType ==
    /\ dpc.pc = "idle"
    /\ conn = "open"
    /\ Exit("unknown")
    /\ UNCHANGED <<codecVars, sideVars, cfg, ntty, terms, conn, heartbeatTimer, lastHeartbeat, hbpc,
                   lastFrame, host, nlogin, nended, nread, flagVars>>

\* handleHeartbeatMsg (rtty.go 299-301)
HandleHeartbeat ==
    /\ dpc.pc = "idle"
    /\ conn = "open"
    /\ HandlerDone
    /\ UNCHANGED <<codecVars, sideVars, ntty, terms, lastFrame, nlogin, nended, host, runVars>>

\* handleTermWinsizeMsg (rtty.go 381-402): the ioctl fails on a closed PTY,
\* and the error ends the loop
HandleWinsize(S) ==
    /\ dpc.pc = "idle"
    /\ conn = "open"
    /\ \E sid \in S :
         IF \E s \in Load(sid) : s.pty = "closed"
         THEN /\ Exit("handler")
              /\ UNCHANGED <<codecVars, sideVars, cfg, conn, heartbeatTimer, lastHeartbeat, hbpc,
                             nread, flagVars>>
         ELSE /\ HandlerDone
              /\ UNCHANGED runVars
    /\ UNCHANGED <<codecVars, sideVars, ntty, terms, lastFrame, nlogin, nended, host>>

(***************************************************************************)
(* RttyClient.Close (rtty.go 223-253).                                     *)
(***************************************************************************)
\* under cli.mu: waitingHeartbeat = false, the heartbeat timer stopped and nil
CloseTimer ==
    /\ dpc.pc = "close"
    /\ waitingHeartbeat' = FALSE
    /\ heartbeatTimer' = NoTimer
    /\ dpc' = At("close_sessions", 0)
    /\ UNCHANGED <<codecVars, sideVars, cfg, ntty, terms, conn, lastHeartbeat, hbpc, lastFrame,
                   host, nlogin, nended, nread, answered, hist>>

\* what sessions.Range does to one session (rtty.go 232-246)
Closed(s) ==
    IF s.inMap
    THEN [s EXCEPT !.timer = StopTimer(s.timer), !.pty = "closed",
                   !.fc = reset(s.fc), !.inMap = FALSE]
    ELSE s

\* con.cancel() (rtty.go 250): the tunnel's cancellation signal is raised
cancel(t) == [t EXCEPT !.cancelled = TRUE]

\* cli.httpCons.Range (rtty.go 248-252)
CancelAll(cons) == {cancel(t) : t \in cons}

RECURSIVE CloseAll(_, _)
CloseAll(b, ss) ==
    IF ss = {} THEN EmptyBag
    ELSE LET s == CHOOSE x \in ss : TRUE
         IN [r \in {Closed(s)} |-> b[s]] (+) CloseAll(b, ss \ {s})

ReconnectNoBase(r) == r
\* delay := rand.IntN(10) + 5, r the random number
ReconnectDelay(r) == r + ReconnectBase

\* the sessions are torn down; then, if cfg.reconnect, the delay is drawn and
\* the sleep begins; otherwise Run returns for good
CloseSessions ==
    /\ dpc.pc = "close_sessions"
    /\ terms' = CloseAll(terms, Live)
    /\ httpCons' = CancelAll(httpCons)
    /\ IF cfg.reconnect
       THEN \E r \in 0 .. ReconnectSpread - 1 :
              /\ dpc' = At("sleep", ReconnectDelay(r))
              /\ hist' = [hist EXCEPT !.waited = ReconnectDelay(r), !.slept = 0]
       ELSE /\ dpc' = At("done", 0)
            /\ UNCHANGED hist
    /\ UNCHANGED <<codecVars, cmds, inWrite, cfg, ntty, conn, heartbeatTimer, lastHeartbeat, hbpc,
                   lastFrame, host, nlogin, nended, nread, flagVars>>

\* time.Sleep is over: cli.Run()
Reconnect ==
    /\ dpc.pc = "sleep"
    /\ dpc.tmp = 0
    /\ hist.attempts < MaxAttempts
    /\ dpc' = At("connect", 0)
    /\ hist' = [NoHist EXCEPT !.attempts = hist.attempts + 1]
    /\ UNCHANGED <<codecVars, sideVars, cfg, ntty, terms, conn, heartbeatTimer, lastHeartbeat, hbpc,
                   lastFrame, host, nlogin, nended, nread, flagVars>>

(***************************************************************************)
(* The heartbeat timer's callback (rtty.go 263-288), a task of its own.    *)
(***************************************************************************)
MsgHeartbeatAttrUptime == 0
\* uint32(uptime) of host.Uptime(), in seconds; 0 when it fails
Uptimes == {0, 86400}

\* an attribute without its length field
putMsgAttrBare(attrType, v) == BCat(Bytes(<< attrType >>), PutUint32BE(v))
\* putMsgAttr (rtty.go 485-516) for a uint32: type, 16-bit length 4, value,
\* big-endian
putMsgAttr(attrType, v) == BCat(Bytes(<< attrType, 0, 4 >>), PutUint32BE(v))

\* the timer fires: the test of waitingHeartbeat, and the elapsed time
HbFire ==
    /\ heartbeatTimer.st = "armed"
    /\ heartbeatTimer.left = 0
    /\ hbpc = "idle"
    /\ IF waitingHeartbeat
       THEN /\ conn' = "closed"
            /\ heartbeatTimer' = [heartbeatTimer EXCEPT !.st = "fired"]
            /\ UNCHANGED hbpc
       ELSE IF lastHeartbeat < cfg.heartbeat
       THEN /\ heartbeatTimer' = [st |-> "armed",
                                  left |-> cfg.heartbeat - lastHeartbeat]
            /\ UNCHANGED <<codecVars, sideVars, conn, hbpc>>
       ELSE /\ hbpc' = "send"
            /\ heartbeatTimer' = [heartbeatTimer EXCEPT !.st = "fired"]
            /\ UNCHANGED conn
    /\ UNCHANGED <<codecVars, sideVars, cfg, ntty, terms, lastHeartbeat, dpc, lastFrame, host,
                   nlogin, nended, nread, flagVars, hist>>

\* cli.WriteMsg(proto.MsgTypeHeartbeat, bb)
HbSend ==
    /\ hbpc = "send"
    /\ hbpc' = "flag"
    /\ \E uptime \in Uptimes :
         lastFrame' = IF conn = "open"
                      THEN Frame("Heartbeat", 0, 0,
                                 putMsgAttr(MsgHeartbeatAttrUptime, uptime))
                      ELSE lastFrame
    /\ answered' = FALSE
    /\ UNCHANGED <<codecVars, sideVars, cfg, ntty, terms, conn, waitingHeartbeat, heartbeatTimer,
                   lastHeartbeat, dpc, host, nlogin, nended, nread, hist>>

\* lastHeartbeat = time.Now(); waitingHeartbeat = true;
\* cli.heartbeatTimer.Reset(rttyHeartbeatTimeout), a nil dereference after
\* Close: the panic ends the process
HbSetFlag ==
    /\ hbpc = "flag"
    /\ lastHeartbeat' = 0
    /\ waitingHeartbeat' = TRUE
    /\ IF heartbeatTimer.st = "nil"
       THEN /\ hbpc' = "panic"
            /\ dpc' = At("dead", 0)
            /\ terms' = EmptyBag
            /\ UNCHANGED heartbeatTimer
       ELSE /\ hbpc' = "idle"
            /\ heartbeatTimer' = [st |-> "armed", left |-> rttyHeartbeatTimeout]
            /\ UNCHANGED <<codecVars, sideVars, dpc, terms>>
    /\ UNCHANGED <<codecVars, sideVars, cfg, ntty, conn, lastFrame, host, nlogin, nended, nread,
                   answered, hist>>

\* a second passes; timers and deadlines fire on time, and the statements
\* after WriteMsg take no time
Tick ==
    /\ hbpc \notin {"flag", "panic"}
    /\ dpc.pc # "done"
    /\ ~(heartbeatTimer.st = "armed" /\ heartbeatTimer.left = 0)
    /\ ~(dpc.pc \in {"await", "sleep"} /\ dpc.tmp = 0)
    /\ lastHeartbeat' = IF lastHeartbeat < LongAgo THEN lastHeartbeat + 1
                        ELSE LongAgo
    /\ heartbeatTimer' = IF heartbeatTimer.st = "armed"
                         THEN [heartbeatTimer EXCEPT !.left = @ - 1]
                         ELSE heartbeatTimer
    /\ dpc' = IF dpc.pc \in {"await", "sleep"} THEN [dpc EXCEPT !.tmp = @ - 1]
              ELSE dpc
    /\ hist' = IF dpc.pc = "sleep" THEN [hist EXCEPT !.slept = @ + 1] ELSE hist
    /\ UNCHANGED <<codecVars, sideVars, cfg, ntty, terms, conn, hbpc, lastFrame, host, nlogin,
                   nended, nread, flagVars>>

(***************************************************************************)
(* The agent from its start: attempts, heartbeats, one terminal.           *)
(***************************************************************************)
RunSids == {1}

RunInit ==
    /\ cfg \in [heartbeat : MinHeartbeat .. MaxHeartbeat, reconnect : BOOLEAN]
    /\ ntty = 0
    /\ terms = EmptyBag
    /\ conn = "none"
    /\ waitingHeartbeat = FALSE
    /\ heartbeatTimer = NoTimer
    /\ lastHeartbeat = LongAgo
    /\ dpc = At("connect", 0)
    /\ hbpc = "idle"
    /\ lastFrame = NoFrame
    /\ host = NoHost
    /\ nlogin = 0
    /\ nended = 0
    /\ nread = 0
    /\ answered = FALSE
    /\ httpCons = {}
    /\ cmds = NoCmds
    /\ inWrite = EmptyBag
    /\ outbox = NoMsg
    /\ wire = << >>
    /\ inbox = NoMsg
    /\ hist = NoHist

RunNext ==
    \/ Connect
    \/ Register
    \/ AwaitRegister
    \/ ReadError
    \/ UnknownType
    \/ HandleHeartbeat
    \/ HandleWinsize(RunSids)
    \/ LoginCheck(RunSids, Cardinality(RunSids))
    \/ LoginIncRead
    \/ LoginIncWrite
    \/ RunStart
    \/ IdleExpire
    \/ CloseLAD
    \/ CloseDecRead
    \/ CloseDecWrite
    \/ CloseTimer
    \/ CloseSessions
    \/ Reconnect
    \/ HbFire
    \/ HbSend
    \/ HbSetFlag
    \/ Tick

RunSpec == RunInit /\ [][RunNext]_vars

\* C6: when the heartbeat timer fires with waitingHeartbeat set, the
\* connection is closed at that fire, which comes at most 3 s, so at most one
\* heartbeat period, after the Heartbeat; and a frame handled since the
\* Heartbeat was sent clears the flag, so that the fire closes the connection
\* only if no frame was handled since the Heartbeat was sent.
C6_HeartbeatTimeout ==
    /\ [][(HbFire /\ waitingHeartbeat) => conn' = "closed"]_vars
    /\ [][(conn = "open" /\ conn' = "closed") => ~answered]_vars
    /\ []((waitingHeartbeat /\ hbpc = "idle" /\ heartbeatTimer.st = "armed")
            => /\ lastHeartbeat + heartbeatTimer.left <= rttyHeartbeatTimeout
               /\ rttyHeartbeatTimeout <= cfg.heartbeat)

\* C7: every exit from connect / register / dispatch goes to Close(); after
\* Close(), with reconnect configured, a delay of 5 to 14 whole seconds is
\* drawn and slept in full, and only then the next attempt begins; an attempt
\* never begins in another way, and without reconnect there is one attempt.
C7_ReconnectAfterDelay ==
    /\ [][(/\ dpc.pc \in {"connect", "register", "await", "idle",
                          "login_read", "login_write"}
           /\ dpc'.pc \notin {"connect", "register", "await", "idle",
                              "login_read", "login_write", "dead"})
            => dpc'.pc = "close"]_vars
    /\ [][(dpc.pc = "close" /\ dpc'.pc \notin {"close", "dead"})
            => /\ dpc'.pc = "close_sessions"
               /\ ~waitingHeartbeat' /\ heartbeatTimer' = NoTimer]_vars
    /\ [][(dpc.pc = "close_sessions" /\ dpc'.pc \notin {"close_sessions", "dead"})
            => IF cfg.reconnect
               THEN /\ dpc'.pc = "sleep" /\ dpc'.tmp \in 5 .. 14
                    /\ hist'.waited = dpc'.tmp /\ hist'.slept = 0
               ELSE dpc'.pc = "done"]_vars
    /\ [][(dpc.pc = "sleep" /\ dpc'.pc \notin {"sleep", "dead"})
            => /\ dpc'.pc = "connect"
               /\ hist.waited \in 5 .. 14 /\ hist.slept = hist.waited
               /\ hist'.attempts = hist.attempts + 1]_vars
    /\ [][(hist'.attempts # hist.attempts \/ (dpc'.pc = "connect" /\ dpc.pc # "connect"))
            => /\ cfg.reconnect /\ dpc.pc = "sleep" /\ dpc'.pc = "connect"
               /\ hist.slept \in 5 .. 14]_vars
    /\ [](dpc.pc = "sleep" => hist.slept + dpc.tmp = hist.waited)
    /\ [](~cfg.reconnect => hist.attempts = 1)

\* the second attempt got no Register reply within the deadline, Close() has
\* run, and the 14 seconds drawn have been slept
C7_Witness ==
    /\ hist.attempts = 2 /\ hist.exit = "missing"
    /\ dpc.pc = "sleep" /\ dpc.tmp = 0 /\ hist.slept = 14

(***************************************************************************)
(* Download: handleFileMsg on a FileInfo frame and startDownload           *)
(* (file_unix.go 45-61, 195-246).  The frame's payload after the sid and   *)
(* the subtype is a 4-byte big-endian size and the file name.              *)
(***************************************************************************)
\* the files the host has when the agent starts, and the directories
Existing == {<< "home", "a" >>}
Dirs == {<< >>, << "home" >>}
\* the free space of the file system that holds the helper's directory
Avail == 1000
\* the deepest savepath for which one more FileInfo is received
MaxDepth == 1
\* transfer requests the helpers make in one run of the download
MaxRequests == 2

\* filepath.Join(savepath, name), name without separators
Join(path, name) == IF name = "" THEN path ELSE Append(path, name)

\* utils.FileExists: os.Stat finds the path
FileExists(h, path) == path \in Dirs \cup Existing \cup h.created

\* utils.CheckSpaceAvailable returns nil: the mount point of savePath is
\* found, which begins with a stat of savePath, and totalSize fits
CheckSpaceAvailable(h, savePath, totalSize) ==
    FileExists(h, savePath) /\ totalSize <= Avail

\* os.OpenFile(ctx.savepath, O_WRONLY|O_CREATE, 0644): "noopen" or "ok"
Opens == {"noopen", "ok"}

\* a startDownload that opens the target and tells the helper nothing
startDownloadSilent(fc, data, env, h) ==
    LET total == Uint32BE(data.size, 0)
        path == Join(fc.savepath, data.name)
    IN [fc |-> [fc EXCEPT !.totalSize = total, !.remainSize = total,
                          !.savepath = path,
                          !.file = [path |-> path, mode |-> "w", left |-> 0]],
        h |-> [h EXCEPT !.created = @ \cup {path}]]

\* ctx.startDownload(data), data at least 4 bytes long; env is the host's
\* answer to OpenFile.  Gives the new file context and host.
startDownload(fc, data, env, h) ==
    LET total == Uint32BE(data.size, 0)
        name == data.name
        fc1 == [fc EXCEPT !.totalSize = total, !.remainSize = total]
        fc2 == [fc1 EXCEPT !.savepath = Join(fc1.savepath, name)]
    IN IF ~CheckSpaceAvailable(h, fc1.savepath, total)
       THEN [fc |-> reset(fc1),
             h |-> sendControlMsg(fc1, h, MsgTypeFileCtlNoSpace, NoData)]
       ELSE IF FileExists(h, fc2.savepath)
       THEN [fc |-> reset(fc2),
             h |-> sendControlMsg(fc2, h, MsgTypeFileCtlErrExist, NoData)]
       ELSE IF env = "noopen"
       THEN [fc |-> reset(fc2),
             h |-> sendControlMsg(fc2, h, MsgTypeFileCtlErr, NoData)]
       ELSE [fc |-> IF total = 0 THEN fc2
                    ELSE [fc2 EXCEPT !.file = [path |-> fc2.savepath,
                                               mode |-> "w", left |-> 0]],
             h |-> sendControlMsg(fc2,
                                  [h EXCEPT !.created = @ \cup {fc2.savepath}],
                                  MsgTypeFileCtlInfo,
                                  [size |-> PutUint32LE(total), name |-> name])]

\* cli.ReadMsg returns a File frame of subtype FileInfo for sid (rtty.go 110)
ReadFileInfo(S, infos) ==
    \E sid \in S, data \in infos :
        /\ dpc = Idle
        /\ conn = "open"
        /\ \A s \in Live : Len(s.fc.savepath) <= MaxDepth
        /\ dpc' = [pc |-> "file", sid |-> sid, tmp |-> 0, data |-> data]
        /\ UNCHANGED <<codecVars, sideVars, ntty, terms, lastFrame, nlogin, nended, host,
                       runVars, flagVars>>

\* handleFileMsg, case MsgTypeFileInfo: binary.BigEndian.Uint32 panics on a
\* payload shorter than 4 bytes, and the process ends
HandleFileInfo ==
    /\ dpc.pc = "file"
    /\ IF Load(dpc.sid) = {}
       THEN /\ HandlerDone
            /\ UNCHANGED <<terms, host>>
       ELSE \E s \in Load(dpc.sid) :
              IF BLen(dpc.data.size) < 4
              THEN /\ dpc' = At("dead", 0)
                   /\ terms' = EmptyBag
                   /\ UNCHANGED <<host, flagVars>>
              ELSE \E env \in Opens :
                     LET d == startDownload(s.fc, dpc.data, env, host)
                     IN /\ terms' = Upd(terms, s, [s EXCEPT !.fc = d.fc])
                        /\ host' = d.h
                        /\ HandlerDone
    /\ UNCHANGED <<codecVars, sideVars, ntty, lastFrame, nlogin, nended, runVars>>

DownloadSids == {1, 2}
\* download requests of two helpers
DownloadBufs ==
    { Request(182, 188, 189, 82, 7, 0),
      Request(182, 188, 189, 82, 8, 0) }
FileInfos ==
    { [size |-> PutUint32BE(10), name |-> "a"],
      [size |-> PutUint32BE(10), name |-> "b"],
      [size |-> PutUint32BE(0), name |-> ""],
      [size |-> PutUint32BE(2000), name |-> "a"],
      [size |-> Bytes(<< 0, 10 >>), name |-> ""] }

DownloadNext ==
    \/ PtyRead(DownloadBufs, MaxRequests)
    \/ WriteDetect
    \/ ReadFileInfo(DownloadSids, FileInfos)
    \/ HandleFileInfo

DownloadSpec == FlowInit /\ [][DownloadNext]_vars

\* C9: a FileInfo handled while a download is accepted and its file not yet
\* opened, whose size passes the space check and whose target path, savepath
\* joined with the received name, exists: ErrExist arrives on a FIFO, the
\* file context is reset, and the agent opens or creates no file.
C9_ExistingTargetRefused ==
    [][\A s \in Live : \A s2 \in BagToSet(terms') :
        (/\ dpc.pc = "file" /\ dpc'.pc = "idle"
         /\ s \in Load(dpc.sid) /\ s2.sid = s.sid
         /\ s.fc.busy /\ s.fc.file = NoFile
         /\ BLen(dpc.data.size) = 4
         /\ CheckSpaceAvailable(host, s.fc.savepath, Uint32BE(dpc.data.size, 0))
         /\ FileExists(host, Join(s.fc.savepath, dpc.data.name)))
        => /\ host'.ctl.type = MsgTypeFileCtlErrExist
           /\ host'.ctl.n = host.ctl.n + 1
           /\ ~s2.fc.busy /\ s2.fc.file = NoFile /\ s2.fc.fifo = NoFifo
           /\ host'.created = host.created
      ]_vars

(***************************************************************************)
(* The frame codec: MsgReaderWriter.Write and Read (file_unix.go 616-726), *)
(* a writer and a reader on the two ends of one byte stream.               *)
(***************************************************************************)
RoleRtty == 0
RoleRttys == 1

MsgTypeRegister == 0
MsgTypeLogin == 1
MsgTypeLogout == 2
MsgTypeTermData == 3
MsgTypeWinsize == 4
MsgTypeCmd == 5
MsgTypeHeartbeat == 6
MsgTypeFile == 7
MsgTypeHttp == 8
MsgTypeAck == 9

minimumMsgLensTermData32 ==
    (MsgTypeRegister :> 1) @@ (MsgTypeLogin :> 32) @@ (MsgTypeLogout :> 32)
    @@ (MsgTypeTermData :> 32) @@ (MsgTypeWinsize :> 36) @@ (MsgTypeFile :> 33)
    @@ (MsgTypeAck :> 34) @@ (MsgTypeHttp :> 26)

minimumMsgLensRtty ==
    (MsgTypeRegister :> 1) @@ (MsgTypeLogin :> 32) @@ (MsgTypeLogout :> 32)
    @@ (MsgTypeTermData :> 33) @@ (MsgTypeWinsize :> 36) @@ (MsgTypeFile :> 33)
    @@ (MsgTypeAck :> 34) @@ (MsgTypeHttp :> 26)

minimumMsgLensRttys ==
    (MsgTypeRegister :> 1) @@ (MsgTypeLogin :> 33) @@ (MsgTypeLogout :> 32)
    @@ (MsgTypeTermData :> 33) @@ (MsgTypeFile :> 33) @@ (MsgTypeHttp :> 18)

\* NewMsgReaderWriter: the table of the role
minimumMsgLens(role) ==
    IF role = RoleRtty THEN minimumMsgLensRtty ELSE minimumMsgLensRttys

PutUint16LE(v) == Bytes(<< v % 256, (v \div 256) % 256 >>)
\* binary.BigEndian, 16 bits
PutUint16BE(v) == Bytes(<< (v \div 256) % 256, v % 256 >>)
Uint16BE(s, i) == 256 * BAt(s, i) + BAt(s, i + 1)

\* Write(typ, data) with one []byte: the error, and the bytes for the stream
Write(typ, data) ==
    LET total == BLen(data)
    IN IF total > MaxPayload
       THEN [err |-> "long", bytes |-> << >>]
       ELSE [err |-> "none",
             bytes |-> BCat(BCat(Rep(typ, 1), PutUint16BE(total % 65536)),
                            data)]

\* Read() on a stream that ends after the bytes w: the result, and the bytes
\* left in the stream
Read(role, w) ==
    IF BLen(w) < 3
    THEN [typ |-> 0, data |-> << >>, err |-> "eof", rest |-> << >>]
    ELSE LET typ == BAt(w, 0)
             msgLen == Uint16BE(w, 1)
             body == BDrop(w, 3)
             lens == minimumMsgLens(role)
         IN IF typ \in DOMAIN lens /\ msgLen < lens[typ] % 65536
            THEN [typ |-> 0, data |-> << >>, err |-> "short", rest |-> body]
            ELSE IF BLen(body) < msgLen
            THEN [typ |-> 0, data |-> << >>, err |-> "eof", rest |-> << >>]
            ELSE [typ |-> typ, data |-> BTake(body, msgLen), err |-> "none",
                  rest |-> BDrop(body, msgLen)]

\* one end writes a frame
CodecWrite(types, payloads) ==
    \E typ \in types, data \in payloads :
        /\ wire = << >>
        /\ outbox' = [role |-> 0, typ |-> typ, data |-> data,
                      err |-> Write(typ, data).err]
        /\ wire' = BCat(wire, Write(typ, data).bytes)
        /\ inbox' = NoMsg
        /\ UNCHANGED <<sideVars, cfg, ntty, terms, conn, waitingHeartbeat, heartbeatTimer,
                       lastHeartbeat, dpc, hbpc, lastFrame, host, nlogin,
                       nended, nread, answered, hist>>

\* the other end, agent or broker, reads one
CodecRead ==
    \E role \in {RoleRtty, RoleRttys} :
        /\ wire # << >>
        /\ inbox.err = "nothing"
        /\ LET r == Read(role, wire)
           IN /\ inbox' = [role |-> role, typ |-> r.typ, data |-> r.data,
                           err |-> r.err]
              /\ wire' = r.rest
        /\ UNCHANGED <<sideVars, cfg, ntty, terms, conn, waitingHeartbeat, heartbeatTimer,
                       lastHeartbeat, dpc, hbpc, lastFrame, host, nlogin,
                       nended, nread, answered, hist, outbox>>

\* every type with a minimum, one without, an unknown one and the last byte
CodecTypes == 0 .. 10 \cup {255}
\* payload lengths around the minimums, the byte boundary and the limit
CodecLens == {0, 1, 17, 18, 25, 26, 31, 32, 33, 34, 35, 36, 255, 256, 257,
              65535, 65536}
CodecPayloads ==
    {Rep(65, n) : n \in CodecLens}
    \cup {BCat(Bytes(<< 0, 255, 1 >>), Rep(0, 33))}

CodecInit ==
    /\ TtyInit

CodecNext ==
    \/ CodecWrite(CodecTypes, CodecPayloads)
    \/ CodecRead

CodecSpec == CodecInit /\ [][CodecNext]_vars

\* C10 (as stated): a frame with a payload of at most 65535 bytes that was
\* written is read back as the same type and payload.
C10_RoundTrip ==
    [][(inbox.err = "nothing" /\ inbox'.err # "nothing")
         => /\ inbox'.err = "none"
            /\ inbox'.typ = outbox.typ
            /\ inbox'.data = outbox.data]_vars

\* C10 (amended): Write fails iff the payload is longer than 65535 bytes and
\* then writes nothing; a frame written is read back as the same type and
\* payload, with nothing left in the stream, iff the reader's table has no
\* minimum for the type above the payload's length; otherwise Read fails.
C10_RoundTripAboveMinimum ==
    /\ [][inbox'.err = "nothing"
            => /\ outbox'.err = "none" <=> BLen(outbox'.data) <= 65535
               /\ BLen(wire') = IF outbox'.err = "none"
                                THEN 3 + BLen(outbox'.data) ELSE 0]_vars
    /\ [][(inbox.err = "nothing" /\ inbox'.err # "nothing")
            => LET lens == minimumMsgLens(inbox'.role)
               IN IF outbox.typ \in DOMAIN lens
                     /\ BLen(outbox.data) < lens[outbox.typ]
                  THEN /\ inbox'.err = "short"
                       /\ inbox'.typ = 0 /\ inbox'.data = << >>
                  ELSE /\ inbox'.err = "none"
                       /\ inbox'.typ = outbox.typ
                       /\ inbox'.data = outbox.data
                       /\ wire' = << >>]_vars

\* the agent has read back a Winsize frame of 65535 bytes
C10_Witness ==
    /\ inbox.err = "none" /\ inbox.role = RoleRtty
    /\ inbox.typ = MsgTypeWinsize /\ inbox.data = Rep(65, 65535)
    /\ outbox.typ = MsgTypeWinsize /\ outbox.data = Rep(65, 65535)
    /\ wire = << >>

\* C11: the agent's reader, on a frame of a type that has a minimum (Register
\* 1, Login 32, Logout 32, TermData 33, Winsize 36, File 33, Ack 34, Http 26)
\* and a declared length below it, fails, returns type 0 and no payload, and
\* leaves every byte after the 3-byte header in the stream; a frame with a
\* declared length at or above the minimum, or of a type without one, is not
\* rejected for its length.
C11_ShortFrameRejected ==
    [][(inbox.err = "nothing" /\ inbox'.err # "nothing" /\ inbox'.role = RoleRtty)
         => LET typ == BAt(wire, 0)
                declared == Uint16BE(wire, 1)
                least == (0 :> 1) @@ (1 :> 32) @@ (2 :> 32) @@ (3 :> 33)
                         @@ (4 :> 36) @@ (7 :> 33) @@ (9 :> 34) @@ (8 :> 26)
            IN IF typ \in DOMAIN least /\ declared < least[typ]
               THEN /\ inbox'.err = "short"
                    /\ inbox'.typ = 0 /\ inbox'.data = << >>
                    /\ wire' = BDrop(wire, 3)
                    /\ BLen(wire') = declared
               ELSE inbox'.err # "short"]_vars

\* the agent's reader has rejected a Winsize frame of 35 bytes, which are
\* still in the stream
C11_Witness ==
    /\ inbox.err = "short" /\ inbox.role = RoleRtty
    /\ outbox.typ = MsgTypeWinsize /\ BLen(outbox.data) = 35
    /\ wire = Rep(65, 35)

(***************************************************************************)
(* RttyClient.SendMsg (unnamed/part_008 405-430), the writer that cmd.go   *)
(* calls for command replies: the length is stored as uint16(length), with *)
(* no test of its size.                                                    *)
(***************************************************************************)
SendMsg(typ, data) ==
    [err |-> "none",
     bytes |-> BCat(BCat(Rep(typ, 1), PutUint16BE(BLen(data) % 65536)), data)]

\* the agent sends a frame with SendMsg
CodecSend(types, payloads) ==
    \E typ \in types, data \in payloads :
        /\ wire = << >>
        /\ outbox' = [role |-> 0, typ |-> typ, data |-> data,
                      err |-> SendMsg(typ, data).err]
        /\ wire' = BCat(wire, SendMsg(typ, data).bytes)
        /\ inbox' = NoMsg
        /\ UNCHANGED <<sideVars, cfg, ntty, terms, conn, waitingHeartbeat, heartbeatTimer,
                       lastHeartbeat, dpc, hbpc, lastFrame, host, nlogin,
                       nended, nread, answered, hist>>

SendNext ==
    \/ CodecWrite(CodecTypes, CodecPayloads)
    \/ CodecSend({MsgTypeCmd}, CodecPayloads)
    \/ CodecRead

SendSpec == CodecInit /\ [][SendNext]_vars

\* C12: whenever the agent sends a frame, by Write or by SendMsg, either the
\* payload is longer than 65535 bytes, the send fails and nothing is written,
\* or the 2-byte length field is the number of payload bytes that follow it.
C12_LengthFieldIsPayloadLength ==
    [][inbox'.err = "nothing"
         => IF BLen(outbox'.data) > 65535
            THEN outbox'.err # "none" /\ wire' = wire
            ELSE /\ outbox'.err = "none"
                 /\ Uint16BE(wire', 1) = BLen(wire') - 3
                 /\ BDrop(wire', 3) = outbox'.data]_vars

(***************************************************************************)
(* HTTP tunnels: handleHttpMsg, RttyHttpConn.run and RttyHttpConn.loop     *)
(* (http.go 50-161).  A tunnel is a record: its key, whether cli.httpCons  *)
(* holds it, the position of its run task ("dial", "run", "done"), whether *)
(* its loop task runs, the buffers queued in c.data, and its socket.       *)
(***************************************************************************)
httpQueueCap == 100
\* the buffers queued for one tunnel in one run
MaxQueue == 2

NewHttpConn(key) ==
    [key |-> key, inMap |-> TRUE, pc |-> "dial", loop |-> FALSE, q |-> 1,
     sock |-> "none", cancelled |-> FALSE]

\* cli.httpCons.Load(key)
LoadCon(key) == {t \in httpCons : t.key = key /\ t.inMap}

\* handleHttpMsg with a payload: LoadOrStore, conn.data <- bb, and for a new
\* tunnel go conn.run.  A frame without payload bytes is below the reader's
\* minimum for Http.
HandleHttp(keys, maxq) ==
    \E key \in keys :
        /\ dpc = Idle
        /\ conn = "open"
        /\ IF LoadCon(key) = {}
           THEN httpCons' = httpCons \cup {NewHttpConn(key)}
           ELSE \E t \in LoadCon(key) :
                  /\ t.q < httpQueueCap
                  /\ t.q < maxq
                  /\ httpCons' = (httpCons \ {t}) \cup {[t EXCEPT !.q = @ + 1]}
        /\ HandlerDone
        /\ UNCHANGED <<codecVars, cmds, inWrite, ntty, terms, lastFrame, nlogin,
                       nended, host, runVars>>

\* run: the dial fails; cli.SendHttpMsg(saddr, nil); return
DialFail ==
    \E t \in httpCons :
        /\ t.pc = "dial"
        /\ lastFrame' = Frame("Http", t.key, 0, << >>)
        /\ httpCons' = (httpCons \ {t}) \cup {[t EXCEPT !.pc = "done"]}
        /\ UNCHANGED <<codecVars, cmds, inWrite, ntty, terms, dpc, nlogin,
                       nended, host, runVars, flagVars>>

\* run: the dial succeeds; c.conn = conn; defer ...; go c.loop()
DialOk ==
    \E t \in httpCons :
        /\ t.pc = "dial"
        /\ httpCons' = (httpCons \ {t})
                       \cup {[t EXCEPT !.pc = "run", !.loop = TRUE,
                                       !.sock = "open"]}
        /\ UNCHANGED <<codecVars, cmds, inWrite, ntty, terms, dpc, lastFrame,
                       nlogin, nended, host, runVars, flagVars>>

\* run: conn.Read returns n > 0 bytes, sent as one Http frame
TunnelRead ==
    \E t \in httpCons :
        /\ t.pc = "run"
        /\ t.sock = "open"
        /\ lastFrame' = Frame("Http", t.key, 0, Rep(66, 10))
        /\ UNCHANGED <<codecVars, sideVars, ntty, terms, dpc, nlogin, nended,
                       host, runVars, flagVars>>

\* a run that sends the empty frame and goes on reading
TunnelEofReads ==
    \E t \in httpCons :
        /\ t.pc = "run"
        /\ lastFrame' = Frame("Http", t.key, 0, << >>)
        /\ httpCons' = (httpCons \ {t}) \cup {[t EXCEPT !.sock = "closed"]}
        /\ UNCHANGED <<codecVars, cmds, inWrite, ntty, terms, dpc, nlogin,
                       nended, host, runVars, flagVars>>

\* run: conn.Read returns 0 (the target or loop closed the socket); the empty
\* frame is sent and run returns: httpCons.Delete(saddr), close(c.closeCh),
\* conn.Close().  The loop task ends on closeCh if it has not ended before.
TunnelEof ==
    \E t \in httpCons :
        /\ t.pc = "run"
        /\ lastFrame' = Frame("Http", t.key, 0, << >>)
        /\ httpCons' = {u \in httpCons : u.key # t.key}
        /\ UNCHANGED <<codecVars, cmds, inWrite, ntty, terms, dpc, nlogin,
                       nended, host, runVars, flagVars>>

\* loop: bb := <-c.data; c.Write(bb.B)
TunnelDrain ==
    \E t \in httpCons :
        /\ t.loop
        /\ t.q > 0
        /\ httpCons' = (httpCons \ {t}) \cup {[t EXCEPT !.q = @ - 1]}
        /\ UNCHANGED <<codecVars, cmds, inWrite, ntty, terms, dpc, lastFrame,
                       nlogin, nended, host, runVars, flagVars>>

\* loop: a tick finds the activity deadline passed; c.conn.Close(); return
TunnelIdle ==
    \E t \in httpCons :
        /\ t.loop
        /\ httpCons' = (httpCons \ {t})
                       \cup {[t EXCEPT !.loop = FALSE, !.sock = "closed"]}
        /\ UNCHANGED <<codecVars, cmds, inWrite, ntty, terms, dpc, lastFrame,
                       nlogin, nended, host, runVars, flagVars>>

TunnelKeys == {1, 2}

TunnelNext ==
    \/ HandleHttp(TunnelKeys, MaxQueue)
    \/ DialFail
    \/ DialOk
    \/ TunnelRead
    \/ TunnelEof
    \/ TunnelDrain
    \/ TunnelIdle

TunnelSpec == TtyInit /\ [][TunnelNext]_vars

\* C13: a tunnel task whose dial fails sends one Http frame with the tunnel's
\* key and an empty payload and terminates; and a tunnel whose task has
\* terminated has no entry in httpCons.
C13_DialFailureRemovesTunnel ==
    /\ [][\A t \in httpCons :
            (t.pc = "dial" /\ [t EXCEPT !.pc = "done"] \in httpCons')
                => lastFrame' = Frame("Http", t.key, 0, << >>)]_vars
    /\ [](\A t \in httpCons : t.pc = "done" => ~t.inMap)

(***************************************************************************)
(* The handlers of the frames that name a session, side by side            *)
(* (rtty.go 341-416, file_unix.go 45-61).                                  *)
(***************************************************************************)
\* handleTermDataMsg: s.term.Write(data[32:]), whose error is dropped, and
\* s.active()
HandleTermData(S) ==
    /\ dpc.pc = "idle"
    /\ conn = "open"
    /\ \E sid \in S :
         IF Load(sid) = {}
         THEN UNCHANGED terms
         ELSE \E s \in Load(sid) :
                terms' = Upd(terms, s, [s EXCEPT !.timer = active(s.timer)])
    /\ HandlerDone
    /\ UNCHANGED <<codecVars, sideVars, ntty, lastFrame, nlogin, nended, host,
                   runVars>>

\* Logins answered with retCode 0 in one run of the handlers
MaxSessions == 1
DispatchSids == {1, 2}
DispatchInfos == {[size |-> PutUint32BE(10), name |-> "b"]}

DispatchNext ==
    \/ LoginCheck(DispatchSids, MaxSessions)
    \/ LoginIncRead
    \/ LoginIncWrite
    \/ RunStart
    \/ PtyExit
    \/ CloseLAD
    \/ CloseDecRead
    \/ CloseDecWrite
    \/ LogoutLAD(DispatchSids)
    \/ LogoutDecRead
    \/ LogoutDecWrite
    \/ HandleTermData(DispatchSids)
    \/ HandleWinsize(DispatchSids)
    \/ AckAdd(DispatchSids, {0})
    \/ AckSignal
    \/ ReadFileInfo(DispatchSids, DispatchInfos)
    \/ HandleFileInfo

DispatchSpec == TtyInit /\ [][DispatchNext]_vars

\* C14: the handler of a TermData, Winsize, Ack, File or Logout frame whose
\* sid has no entry in sessions changes no session, not ntty, sends nothing,
\* touches no helper, and returns to the dispatch loop with the connection
\* open; and a sid gets an entry in sessions only in handleLoginMsg.
C14_UnknownSidDropped ==
    /\ [][\A sid \in DispatchSids :
            (/\ {r \in Live : r.sid = sid /\ r.inMap} = {}
             /\ \/ HandleTermData({sid})
                \/ HandleWinsize({sid})
                \/ AckAdd({sid}, {0})
                \/ LogoutLAD({sid})
                \/ (dpc.sid = sid /\ HandleFileInfo))
            => /\ terms' = terms /\ ntty' = ntty
               /\ lastFrame' = lastFrame /\ host' = host
               /\ dpc' = Idle /\ conn' = "open"]_vars
    /\ [][\A s2 \in BagToSet(terms') :
            (s2.inMap /\ \A s \in Live : s.inMap => s.sid # s2.sid)
                => /\ dpc.pc = "idle" /\ dpc'.pc = "login_read"
                   /\ dpc'.sid = s2.sid]_vars

\* a File frame for sid 2 is in the handler when only session 1 is logged in
\* and running
C14_Witness ==
    /\ dpc.pc = "file" /\ dpc.sid = 2
    /\ nlogin = 1 /\ nended = 0
    /\ \E s \in Live : s.sid = 1 /\ s.inMap /\ s.pc = "read"
    /\ \A s \in Live : s.sid # 2

(***************************************************************************)
(* handleFileMsg for FileData, FileAck and FileAbort, with notifyProgress  *)
(* and sendData (file_unix.go 63-88, 281-317).                             *)
(***************************************************************************)
MsgTypeFileCtlProgress == 1
MsgTypeFileCtlAbort == 4
MsgTypeFileData == 3
MsgTypeFileAck == 4
MsgTypeFileAbort == 5
\* the bytes by which FileData frames overrun the announced size in one run
MaxOverrun == 1

\* what the host answers to a write on the FIFO and to a read of the file
Pipes == {"epipe", "readerr", "ok"}

\* ctx.notifyProgress() returns nil
Notified(fc, env) == fc.fifo.st = "open" /\ env # "epipe"

\* a - b in uint32 arithmetic.  The 32 bits of the result are kept as a
\* two's complement number: a result v < 0 is the uint32 value 2^32 + v,
\* which is what ctx.remainSize holds after the subtraction wrapped
\* (PutUint32LE gives its four bytes; the values of the model stay far from
\* 2^31, so no second wrap is lost)
SubUint32(a, b) == a - b

\* a progress message that reports the size of the file
ProgressTotal(fc) == [size |-> PutUint32LE(fc.totalSize), name |-> ""]
\* notifyProgress: binary.NativeEndian.PutUint32(buf, ctx.remainSize)
Progress(fc) == [size |-> PutUint32LE(fc.remainSize), name |-> ""]

\* case MsgTypeFileData with n payload bytes
fileData(s, n, env, h, f) ==
    LET fc == s.fc
        \* ctx.remainSize -= uint32(len(data)), in uint32 arithmetic
        fc1 == [fc EXCEPT !.remainSize = SubUint32(@, n)]
        \* s.fc.file.Write(data) fails on a file opened for reading
        h1 == IF fc.file.mode = "w" THEN [h EXCEPT !.written = @ + n] ELSE h
    IN IF n = 0 THEN [fc |-> reset(fc), h |-> h, f |-> f]
       ELSE IF fc.file.mode = "nil" THEN [fc |-> fc, h |-> h, f |-> f]
       ELSE IF ~Notified(fc1, env) THEN [fc |-> reset(fc1), h |-> h1, f |-> f]
       ELSE IF fc1.remainSize = 0
       THEN [fc |-> reset(fc1),
             h |-> sendControlMsg(fc1, h1, MsgTypeFileCtlProgress, Progress(fc1)),
             f |-> f]
       ELSE [fc |-> fc1,
             h |-> sendControlMsg(fc1, h1, MsgTypeFileCtlProgress, Progress(fc1)),
             f |-> Frame("File", s.sid, MsgTypeFileAck, << >>)]

\* a read that starts at the beginning of the file every time
FileReadHead(file) == BTake(FileContent(file.path), FileBufSize)
\* ctx.file.Read(ctx.buf[:]): the next bytes of the file, at most a buffer
FileRead(file) ==
    LET all == FileContent(file.path)
    IN BTake(BDrop(all, BLen(all) - file.left), FileBufSize)

\* ctx.sendData(): a file open for writing cannot be read
sendData(s, env, h, f) ==
    LET fc == s.fc
        buf == FileRead(fc.file)
        n == BLen(buf)
        fc1 == [fc EXCEPT !.remainSize = SubUint32(@, n), !.file.left = @ - n]
        h1 == [h EXCEPT !.sent = BCat(@, buf)]
    IN IF fc.file.mode = "nil" THEN [fc |-> fc, h |-> h, f |-> f]
       ELSE IF env = "readerr" \/ fc.file.mode = "w"
       THEN [fc |-> reset(fc),
             h |-> sendControlMsg(fc, h, MsgTypeFileCtlErr, NoData),
             f |-> Frame("File", s.sid, MsgTypeFileAbort, << >>)]
       ELSE IF n = 0
       THEN [fc |-> reset(fc1), h |-> h,
             f |-> Frame("File", s.sid, MsgTypeFileData, << >>)]
       ELSE IF ~Notified(fc1, env)
       THEN [fc |-> reset(fc1), h |-> h1,
             f |-> Frame("File", s.sid, MsgTypeFileAbort, << >>)]
       ELSE [fc |-> fc1,
             h |-> sendControlMsg(fc1, h1, MsgTypeFileCtlProgress, Progress(fc1)),
             f |-> Frame("File", s.sid, MsgTypeFileData, buf)]

\* case MsgTypeFileAbort
fileAbort(s, h, f) ==
    [fc |-> reset(s.fc),
     h |-> sendControlMsg(s.fc, h, MsgTypeFileCtlAbort, NoData),
     f |-> f]

\* the dispatch task handles a File frame with result d for session s
FileHandled(s, d) ==
    /\ terms' = Upd(terms, s, [s EXCEPT !.fc = d.fc])
    /\ host' = d.h
    /\ lastFrame' = d.f

HandleFileData(S, lens) ==
    /\ dpc = Idle
    /\ conn = "open"
    /\ \E sid \in S, n \in lens, env \in Pipes :
         IF Load(sid) = {} THEN UNCHANGED <<terms, host, lastFrame>>
         ELSE \E s \in Load(sid) :
                /\ s.fc.remainSize - n >= -MaxOverrun
                /\ FileHandled(s, fileData(s, n, env, host, lastFrame))
    /\ HandlerDone
    /\ UNCHANGED <<codecVars, sideVars, ntty, nlogin, nended, runVars>>

HandleFileAck(S) ==
    /\ dpc = Idle
    /\ conn = "open"
    /\ \E sid \in S, env \in Pipes :
         IF Load(sid) = {} THEN UNCHANGED <<terms, host, lastFrame>>
         ELSE \E s \in Load(sid) :
                FileHandled(s, sendData(s, env, host, lastFrame))
    /\ HandlerDone
    /\ UNCHANGED <<codecVars, sideVars, ntty, nlogin, nended, runVars>>

HandleFileAbort(S) ==
    /\ dpc = Idle
    /\ conn = "open"
    /\ \E sid \in S :
         IF Load(sid) = {} THEN UNCHANGED <<terms, host, lastFrame>>
         ELSE \E s \in Load(sid) :
                FileHandled(s, fileAbort(s, host, lastFrame))
    /\ HandlerDone
    /\ UNCHANGED <<codecVars, sideVars, ntty, nlogin, nended, runVars>>

\* transfer requests in one run of the File handlers
MaxTransfers == 2
\* a download request and an upload request
FileBufs ==
    { Request(182, 188, 189, 82, 7, 0),
      Request(182, 188, 189, 83, 9, 5) }
FileDataLens == {0, 10}
FileInfoFrames == {[size |-> PutUint32BE(10), name |-> "b"]}

FileNext ==
    \/ PtyRead(FileBufs, MaxTransfers)
    \/ WriteDetect
    \/ ReadFileInfo(FlowSids, FileInfoFrames)
    \/ HandleFileInfo
    \/ HandleFileData(FlowSids, FileDataLens)
    \/ HandleFileAck(FlowSids)
    \/ HandleFileAbort(FlowSids)

FileSpec == FlowInit /\ [][FileNext]_vars

MaxWire == 40

\* the frame each task writes: the heartbeat callback (rtty.go 281), a
\* session's Write (436), a tunnel task (http.go 106), a command reply
\* (cmd.go 204) and the dispatch task's login reply (rtty.go 336)
WriterFrames ==
    ("heartbeat" :> [typ |-> MsgTypeHeartbeat, data |-> Rep(1, 7)])
    @@ ("session" :> [typ |-> MsgTypeTermData, data |-> Rep(2, 34)])
    @@ ("http" :> [typ |-> MsgTypeHttp, data |-> Rep(3, 18)])
    @@ ("cmd" :> [typ |-> MsgTypeCmd, data |-> Rep(4, 5)])
    @@ ("dispatch" :> [typ |-> MsgTypeLogin, data |-> Rep(5, 33)])

Writers == DOMAIN WriterFrames

\* the buffer a task builds: the command reply goes through SendMsg
FrameBuf(task) ==
    LET f == WriterFrames[task]
    IN IF task = "cmd" THEN SendMsg(f.typ, f.data).bytes
       ELSE Write(f.typ, f.data).bytes

\* a write that hands over the header and the payload separately
WriteToHeader(buf) == IF BLen(buf) > 3 THEN 3 ELSE BLen(buf)

\* bb.WriteTo(msg.conn): the bytes of the buffer that one call to the
\* connection's Write puts on the stream, all of them
WriteTo(buf) == BLen(buf)

\* a task calls WriteMsg and builds its frame: nothing is waited for
WriteMsg(tasks) ==
    \E task \in tasks :
        /\ \A r \in BagToSet(inWrite) : r.task # task
        /\ inWrite' = inWrite (+) SetToBag({[task |-> task,
                                             buf |-> FrameBuf(task)]})
        /\ UNCHANGED <<codecVars, httpCons, cmds, cfg, ntty, terms, conn,
                       waitingHeartbeat, heartbeatTimer, lastHeartbeat, dpc,
                       hbpc, lastFrame, host, nlogin, nended, nread,
                       answered, hist>>

\* the task's call to the connection, and the return from Write when the
\* buffer is out
ConnWrite ==
    \E r \in BagToSet(inWrite) :
        /\ BLen(wire) < MaxWire
        /\ LET n == WriteTo(r.buf)
               left == BDrop(r.buf, n)
               out == inWrite (-) SetToBag({r})
           IN /\ wire' = BCat(wire, BTake(r.buf, n))
              /\ inWrite' = IF left = << >> THEN out
                            ELSE out (+) SetToBag({[r EXCEPT !.buf = left]})
        /\ UNCHANGED <<httpCons, cmds, outbox, inbox, cfg, ntty, terms, conn,
                       waitingHeartbeat, heartbeatTimer, lastHeartbeat, dpc,
                       hbpc, lastFrame, host, nlogin, nended, nread,
                       answered, hist>>

\* the broker reads one frame from the stream
BrokerRead ==
    /\ wire # << >>
    /\ LET r == Read(RoleRttys, wire)
       IN /\ r.err = "none"
          /\ inbox' = [role |-> RoleRttys, typ |-> r.typ, data |-> r.data,
                       err |-> r.err]
          /\ wire' = r.rest
    /\ UNCHANGED <<sideVars, outbox, cfg, ntty, terms, conn, waitingHeartbeat,
                   heartbeatTimer, lastHeartbeat, dpc, hbpc, lastFrame, host,
                   nlogin, nended, nread, answered, hist>>

WriterNext ==
    \/ WriteMsg(Writers)
    \/ ConnWrite
    \/ BrokerRead

WriterSpec == TtyInit /\ [][WriterNext]_vars

\* the stream is a sequence of whole frames, each one a task's frame
RECURSIVE WholeFrames(_)
WholeFrames(w) ==
    \/ w = << >>
    \/ LET r == Read(RoleRttys, w)
       IN /\ r.err = "none"
          /\ \E task \in Writers : /\ WriterFrames[task].typ = r.typ
                                   /\ WriterFrames[task].data = r.data
          /\ WholeFrames(r.rest)

C17_LoopExitsOnCodecError ==
    [][(dpc.pc = "idle" /\ dpc'.pc = "close")
         => hist'.exit \in {"read", "unknown"}]_vars

(***************************************************************************)
(* The command executor (cmd.go).  cmds.held is the number of values in    *)
(* the channel rttyCmdSemaphore, cmds.running the executeCommand tasks,    *)
(* cmds.last the last reply written, cmds.n the Cmd frames handled and     *)
(* cmds.look what handleCmdMsg found in the last of them.                  *)
(***************************************************************************)
rttyCmdRunningLimit == 5
\* 1024 * 1024
rttyCmdMaxOutputSize == 1048576

rttyCmdErrNone == 0
rttyCmdErrPermit == 1
rttyCmdErrNotFound == 2
rttyCmdErrNoMem == 3
rttyCmdErrSysErr == 4
rttyCmdErrRespTooBig == 5

\* Cmd frames handled in one life of the process
MaxCmds == 6
\* the tokens are "t1", "t2", ...: two characters
TokenLen == 2

\* len(cmderr2str(err))
cmderr2str(err) ==
    CASE err = rttyCmdErrPermit -> 23
      [] err = rttyCmdErrNotFound -> 9
      [] err = rttyCmdErrNoMem -> 6
      [] err = rttyCmdErrSysErr -> 9
      [] err = rttyCmdErrRespTooBig -> 24
      [] OTHER -> 0

\* len(base64.StdEncoding.EncodeToString(b)) for n bytes, with padding
Base64Len(n) == 4 * ((n + 2) \div 3)
\* digits of %d for an exit code 0..255
Digits(d) == IF d < 10 THEN 1 ELSE IF d < 100 THEN 2 ELSE 3

\* the JSON text of a reply is kept by its length, as bytes 'x'
JsonText(n) == Rep(120, n)

\* cmdErrReply (cmd.go 178-181)
cmdErrReply(token, err) ==
    LET json == JsonText(38 + TokenLen + Digits(err) + cmderr2str(err))
    IN [token |-> token, err |-> err, code |-> 0, json |-> json,
        frame |-> SendMsg(MsgTypeCmd, json).bytes]

\* cmdReply (cmd.go 200-205)
cmdReply(token, code, stdout, stderr) ==
    LET json == JsonText(54 + TokenLen + Digits(code) + Base64Len(stdout)
                           + Base64Len(stderr))
    IN [token |-> token, err |-> rttyCmdErrNone, code |-> code,
        json |-> json, frame |-> SendMsg(MsgTypeCmd, json).bytes]

\* a task that returns without taking a value out of the channel
executeCommandNoDefer(held) == held

\* the deferred <-rttyCmdSemaphore of executeCommand (cmd.go 91-93)
executeCommandDefer(held) == held - 1

\* handleCmdMsg (cmd.go 57-88), the whole handler: the parse, the two
\* lookups and the select on the semaphore
HandleCmd(lookups) ==
    /\ dpc.pc = "idle"
    /\ conn = "open"
    /\ cmds.n < MaxCmds
    /\ \E look \in lookups :
         LET token == cmds.n + 1
             c == [cmds EXCEPT !.n = token, !.look = look]
         IN cmds' =
              CASE look = "format" -> c
                [] look = "user" ->
                     [c EXCEPT !.last = cmdErrReply(token, rttyCmdErrPermit)]
                [] look = "path" ->
                     [c EXCEPT !.last = cmdErrReply(token, rttyCmdErrNotFound)]
                [] OTHER ->
                     IF cmds.held < rttyCmdRunningLimit
                     THEN [c EXCEPT !.held = @ + 1,
                                    !.running = @ \cup {[token |-> token,
                                                         pc |-> "run",
                                                         sent |-> 0]}]
                     ELSE [c EXCEPT !.last = cmdErrReply(token, rttyCmdErrNoMem)]
    /\ UNCHANGED <<codecVars, httpCons, inWrite, cfg, ntty, terms, conn,
                   waitingHeartbeat, heartbeatTimer, lastHeartbeat, dpc, hbpc,
                   lastFrame, host, nlogin, nended, nread, answered, hist>>

\* executeCommand (cmd.go 94-134): cmd.Run() returns and the reply is written
CmdRun(outcomes) ==
    \E t \in cmds.running, o \in outcomes :
        /\ t.pc = "run"
        /\ LET reply ==
                 IF o.kind = "timeout" \/ o.kind = "fail"
                 THEN cmdErrReply(t.token, rttyCmdErrSysErr)
                 ELSE IF o.stdout + o.stderr > rttyCmdMaxOutputSize
                 THEN cmdErrReply(t.token, rttyCmdErrRespTooBig)
                 ELSE cmdReply(t.token, o.code, o.stdout, o.stderr)
           IN cmds' = [cmds EXCEPT
                         !.last = reply,
                         !.running = (@ \ {t})
                            \cup {[t EXCEPT !.pc = "release",
                                            !.sent = @ + 1]}]
        /\ lastFrame' = Frame("Cmd", t.token, 0, << >>)
        /\ UNCHANGED <<codecVars, httpCons, inWrite, cfg, ntty, terms, conn,
                       waitingHeartbeat, heartbeatTimer, lastHeartbeat, dpc,
                       hbpc, host, nlogin, nended, nread, answered, hist>>

\* the deferred functions run and the task ends
CmdRelease ==
    \E t \in cmds.running :
        /\ t.pc = "release"
        /\ cmds' = [cmds EXCEPT !.held = executeCommandDefer(@),
                                !.running = @ \ {t}]
        /\ UNCHANGED <<codecVars, httpCons, inWrite, cfg, ntty, terms, conn,
                       waitingHeartbeat, heartbeatTimer, lastHeartbeat, dpc,
                       hbpc, lastFrame, host, nlogin, nended, nread, answered,
                       hist>>

\* what handleCmdMsg can find: a malformed frame, an unknown user, a command
\* that is not in PATH, or a command to run
CmdLookups == {"format", "user", "path", "ok"}

\* how cmd.Run() can end: the 30 s deadline, a failure to start or wait, an
\* exit with status 0 or 1; and output sizes around the limits
CmdOutcomes ==
    {[kind |-> "timeout", code |-> 0, stdout |-> 0, stderr |-> 0],
     [kind |-> "fail", code |-> 0, stdout |-> 0, stderr |-> 0]}
    \cup [kind : {"exit"}, code : {0, 1},
          stdout : {0, 49107, 49108, rttyCmdMaxOutputSize}, stderr : {0, 1}]

CmdNext ==
    \/ HandleCmd(CmdLookups)
    \/ CmdRun(CmdOutcomes)
    \/ CmdRelease

CmdSpec == TtyInit /\ [][CmdNext]_vars

\* C18: the held slots of the command semaphore are the commands executing,
\* never more than 5; a command that arrives while 5 are executing is
\* answered NO_MEM and not started; and every admitted command gives its slot
\* back exactly once, when its task ends, whatever the outcome.
C18_SemaphoreCountsCommands ==
    /\ [](/\ cmds.held = Cardinality(cmds.running)
          /\ cmds.held <= rttyCmdRunningLimit)
    /\ [][(cmds'.n # cmds.n /\ cmds.held = rttyCmdRunningLimit)
            => /\ cmds'.running = cmds.running
               /\ cmds'.held = cmds.held
               /\ cmds'.look = "ok"
                    => cmds'.last = cmdErrReply(cmds'.n, rttyCmdErrNoMem)]_vars
    /\ [][\A t \in cmds.running :
            (\A u \in cmds'.running : u.token # t.token)
                => /\ t.pc = "release"
                   /\ t.sent = 1
                   /\ cmds'.held = cmds.held - 1]_vars
    /\ [][cmds'.held < cmds.held
            => \E t \in cmds.running :
                  /\ t.pc = "release"
                  /\ cmds'.running = cmds.running \ {t}]_vars

\* five commands are executing and a sixth was answered NO_MEM
C18_Witness ==
    /\ cmds.held = rttyCmdRunningLimit
    /\ cmds.last.err = rttyCmdErrNoMem
    /\ cmds.last.token = MaxCmds

\* C19: a command that exits before the deadline with at most 1 MiB of output
\* is answered by one well-formed Cmd frame that carries its token, its exit
\* code and the base64 text of stdout and stderr: read back, the frame is
\* the reply's JSON text, with nothing left over.
C19_ReplyIsOneFrame ==
    cmds.last.err = rttyCmdErrNone
        => LET r == Read(RoleRttys, cmds.last.frame)
           IN /\ r.err = "none"
              /\ r.typ = MsgTypeCmd
              /\ r.data = cmds.last.json
              /\ r.rest = << >>

(***************************************************************************)
(* Close() with sessions, transfers and tunnels alive (rtty.go 223-253).   *)
(* RttyHttpConn.cancel is not among the sources: what the signal does to a *)
(* tunnel's tasks follows the design document, a running tunnel task ends  *)
(* the way run ends (http.go 112-116).                                     *)
(***************************************************************************)
\* run, cancelled: httpCons.Delete(saddr), close(c.closeCh), conn.Close()
TunnelCancelled ==
    \E t \in httpCons :
        /\ t.pc = "run"
        /\ t.cancelled
        /\ httpCons' = {u \in httpCons : u.key # t.key}
        /\ UNCHANGED <<codecVars, cmds, inWrite, ntty, terms, dpc, lastFrame,
                       nlogin, nended, host, runVars, flagVars>>

\* the sleep is over and Run starts again (rtty.go 64-69); the attempts are
\* counted up to MaxAttempts, and the client goes on after that
CloseReconnect ==
    /\ dpc.pc = "sleep"
    /\ dpc' = At("connect", 0)
    /\ hist' = [NoHist EXCEPT !.attempts =
                   IF hist.attempts < MaxAttempts THEN hist.attempts + 1
                   ELSE MaxAttempts]
    /\ UNCHANGED <<codecVars, sideVars, cfg, ntty, terms, conn, heartbeatTimer,
                   lastHeartbeat, hbpc, lastFrame, host, nlogin, nended, nread,
                   flagVars>>

CloseKeys == {1}
\* transfer requests the session's PTY prints before the connection is lost
MaxCloseReads == 1

\* a session is logged in; the client reconnects
CloseInit ==
    /\ LoopEntry([heartbeat |-> MinHeartbeat, reconnect |-> TRUE])
    /\ ntty = 1
    /\ terms = SetToBag({Running(1)})
    /\ nlogin = 1
    /\ lastFrame = Frame("Login", 1, 0, << >>)

CloseNext ==
    \/ PtyRead(FileBufs, MaxCloseReads)
    \/ WriteDetect
    \/ PtyExit
    \/ CloseLAD
    \/ CloseDecRead
    \/ CloseDecWrite
    \/ HandleHttp(CloseKeys, MaxQueue)
    \/ DialFail
    \/ DialOk
    \/ TunnelEof
    \/ TunnelDrain
    \/ TunnelIdle
    \/ TunnelCancelled
    \/ ReadError
    \/ CloseTimer
    \/ CloseSessions
    \/ CloseReconnect
    \/ Connect
    \/ Register
    \/ AwaitRegister

CloseSpec == CloseInit /\ [][CloseNext]_vars

\* the tasks are scheduled: a dial ends (it has a 3 s timeout), a cancelled
\* tunnel task ends, a session's task and the dispatch task go on
CloseFairSpec ==
    /\ CloseSpec
    /\ WF_vars(DialFail \/ DialOk)
    /\ WF_vars(TunnelCancelled)
    /\ WF_vars(WriteDetect \/ CloseLAD \/ CloseDecRead \/ CloseDecWrite)
    /\ WF_vars(CloseTimer \/ CloseSessions \/ CloseReconnect \/ Connect
                 \/ Register \/ AwaitRegister)

\* C20: when Close() returns the heartbeat timer is stopped, sessions is
\* empty, every session that was in it has its timer stopped, its PTY closed
\* and its file context reset, and every tunnel is cancelled; and after
\* that every tunnel task ends and httpCons becomes empty.
C20_CloseTearsDown ==
    /\ [][(dpc.pc = "close_sessions" /\ dpc'.pc = "sleep")
            => /\ heartbeatTimer'.st # "armed"
               /\ \A s \in BagToSet(terms') : ~s.inMap
               /\ \A s \in Live :
                    s.inMap
                      => \E s2 \in BagToSet(terms') :
                            /\ s2.sid = s.sid
                            /\ s2.pc = s.pc
                            /\ s2.timer # "armed"
                            /\ s2.pty = "closed"
                            /\ ~s2.fc.busy
                            /\ s2.fc.file = NoFile
                            /\ s2.fc.fifo = NoFifo
               /\ \A t \in httpCons' : t.cancelled]_vars
    /\ (dpc.pc = "sleep") ~> (httpCons = {})

(***************************************************************************)
(* A download, frame by frame (file_unix.go 45-91, 150-166, 195-246): the  *)
(* helper's request on the PTY, FileInfo, FileData.                        *)
(***************************************************************************)
\* buffers the PTY prints in one run: download requests of the helpers 7, 8
MaxDataReads == 2
DataBufs ==
    { Request(182, 188, 189, 82, 7, 0),
      Request(182, 188, 189, 82, 8, 0) }
\* files of 5 and of 10 bytes, sent in chunks of 5; an empty chunk
DataInfos == {[size |-> PutUint32BE(5), name |-> "b"],
              [size |-> PutUint32BE(10), name |-> "b"]}
DataLens == {0, 5}

DataNext ==
    \/ PtyRead(DataBufs, MaxDataReads)
    \/ WriteDetect
    \/ ReadFileInfo(FlowSids, DataInfos)
    \/ HandleFileInfo
    \/ HandleFileData(FlowSids, DataLens)

DataSpec == FlowInit /\ [][DataNext]_vars

\* the sessions with a download under way: busy, the target open for writing
Downloading == {s \in Live : s.inMap /\ s.fc.busy /\ s.fc.file.mode = "w"}

FileAckFrame(sid) == Frame("File", sid, MsgTypeFileAck, << >>)

\* C21 (as stated): during a download every FileData frame with n > 0 bytes
\* is appended to the target file, takes n from remainSize, makes a Progress
\* message with the new remainSize on the FIFO and is answered with FileAck.
C21_DataAckedAlways ==
    \A s \in Downloading, n \in DataLens \ {0}, env \in Pipes :
        LET d == fileData(s, n, env, host, NoFrame)
        IN /\ d.h.written = host.written + n
           /\ d.fc.remainSize = s.fc.remainSize - n
           /\ d.h.ctl = [pid |-> s.fc.fifo.pid, type |-> MsgTypeFileCtlProgress,
                         data |-> Progress(d.fc), n |-> host.ctl.n + 1]
           /\ d.f = FileAckFrame(s.sid)

\* C21 (amended): during a download every FileData frame with n > 0 bytes is
\* appended to the target file and takes n from remainSize; when the FIFO
\* takes the Progress message with the new remainSize, the frame is answered
\* with FileAck unless remainSize has reached 0, in which case the context is
\* reset and nothing is sent; when the FIFO write fails, the context is
\* reset and nothing is sent.
C21_DataAckedUnlessLast ==
    \A s \in Downloading, n \in DataLens \ {0}, env \in Pipes :
        LET d == fileData(s, n, env, host, NoFrame)
            told == s.fc.fifo.st = "open" /\ env # "epipe"
        IN /\ d.h.written = host.written + n
           /\ d.fc.remainSize = s.fc.remainSize - n
           /\ told => d.h.ctl = [pid |-> s.fc.fifo.pid,
                                 type |-> MsgTypeFileCtlProgress,
                                 data |-> [size |-> PutUint32LE(s.fc.remainSize - n),
                                           name |-> ""],
                                 n |-> host.ctl.n + 1]
           /\ ~told => d.h.ctl = host.ctl
           /\ (told /\ s.fc.remainSize # n)
                => /\ d.f = FileAckFrame(s.sid)
                   /\ d.fc = [s.fc EXCEPT !.remainSize = @ - n]
           /\ (~told \/ s.fc.remainSize = n)
                => /\ d.f = NoFrame
                   /\ ~d.fc.busy /\ d.fc.file = NoFile /\ d.fc.fifo = NoFifo

\* the first 5 bytes of a 10-byte file are written, reported and acknowledged
C21_Witness ==
    /\ lastFrame = FileAckFrame(1)
    /\ host.written = 5
    /\ host.ctl.type = MsgTypeFileCtlProgress
    /\ host.ctl.data.size = PutUint32LE(5)
    /\ \E s \in Downloading : s.fc.remainSize = 5 /\ s.fc.totalSize = 10

\* a control message of the given type and payload, the n-th on the FIFOs
Ctl(pid, typ, data, n) == [pid |-> pid, type |-> typ, data |-> data, n |-> n]

\* the reader task is about to run detect on a download request, the context idle
RecvRequested ==
    {s \in Live : s.pc = "write" /\ IsMagic(s.buf) /\ BAt(s.buf, 3) = DirRecv
                  /\ ~s.fc.busy}

\* the sessions whose download was requested and whose FileInfo is due
AwaitingInfo ==
    {s \in Live : s.inMap /\ s.fc.busy /\ s.fc.file = NoFile
                  /\ s.fc.fifo.st = "open"}

C26_BusyDetectLeavesContext ==
    [][\A s \in Live :
         (s.pc = "write" /\ IsMagic(s.buf) /\ s.fc.busy
            /\ s \notin BagToSet(terms'))
         => /\ lastFrame' = lastFrame
            /\ \/ host'.ctl = Ctl(Uint32LE(s.buf, 4), MsgTypeFileCtlBusy, NoData,
                                  host.ctl.n + 1)
               \/ host'.killed # host.killed
            /\ \E t \in BagToSet(terms') :
                 t.sid = s.sid /\ t.pc = "read" /\ t.fc = s.fc]_vars

(***************************************************************************)
(* The end of a session (rtty.go 341-363, 443-483): one terminal prints    *)
(* and is acknowledged; its process exits, its idle timer expires, the     *)
(* broker sends input and logs it out.                                     *)
(***************************************************************************)
EndNext ==
    \/ PtyRead(FlowBufs, MaxReads)
    \/ WriteDetect
    \/ WriteSend
    \/ WaitAckAdd
    \/ WaitAckCheck
    \/ WaitAckPark
    \/ WaitAckWake
    \/ AckAdd(FlowSids, AckLens)
    \/ AckSignal
    \/ HandleTermData(FlowSids)
    \/ PtyExit
    \/ IdleExpire
    \/ LogoutLAD(FlowSids)
    \/ LogoutDecRead
    \/ LogoutDecWrite
    \/ CloseLAD
    \/ CloseDecRead
    \/ CloseDecWrite

EndSpec == FlowInit /\ [][EndNext]_vars

\* the entries of cli.sessions
InMap == {r \in Live : r.inMap}
\* the reader tasks inside close, past LoadAndDelete
Closing == {r \in Live : r.pc \in {"dec_read", "dec_write"}}

\* C23: the session's entry is removed from sessions in one step, either by
\* handleLogoutMsg, which sends nothing and goes on to its ntty--, or by the
\* reader task's close, which sends Logout(sid) and goes on to its ntty--;
\* the one that comes second finds no entry and does neither; ntty changes
\* once, from 1 to 0, and is 0 when both are done; Logout(sid) is sent only
\* in the step in which the reader task's close removes the entry.
C23_OneRemoverOneDecrement ==
    /\ [][(InMap # {} /\ InMap' = {})
            => \/ /\ dpc.pc = "idle" /\ dpc'.pc = "logout_read"
                  /\ lastFrame' = lastFrame
                  /\ {r \in BagToSet(terms') : r.pc = "dec_read"} = {}
               \/ /\ dpc' = dpc
                  /\ \E t \in BagToSet(terms') :
                        /\ t.pc = "dec_read"
                        /\ lastFrame' = Frame("Logout", t.sid, 0, << >>)]_vars
    /\ [][(dpc'.pc = "logout_read" /\ dpc.pc # "logout_read")
            => (InMap # {} /\ InMap' = {})]_vars
    /\ [][(Closing' # {} /\ Closing = {}) => (InMap # {} /\ InMap' = {})]_vars
    /\ [][(lastFrame'.type = "Logout" /\ lastFrame.type # "Logout")
            => (InMap # {} /\ InMap' = {} /\ dpc' = dpc)]_vars
    /\ [][ntty' # ntty => (ntty = 1 /\ ntty' = 0 /\ InMap = {})]_vars
    /\ []((InMap = {} /\ Closing = {}
             /\ dpc.pc \notin {"logout_read", "logout_write"}) => ntty = 0)
    /\ [](~(Closing # {} /\ dpc.pc \in {"logout_read", "logout_write"}))

\* the race: the PTY has ended and the reader task has not yet run close
\* when handleLogoutMsg takes the entry and is about to decrement ntty
C23_Witness ==
    /\ dpc.pc = "logout_write"
    /\ ntty = 1
    /\ \E s \in Live : s.sid = dpc.sid /\ ~s.inMap /\ s.pc = "read"
                       /\ s.pty = "closed" /\ nended = 1

(***************************************************************************)
(* The idle timer (rtty.go 443-453): the session of EndSpec with a broker  *)
(* that sends no Logout.  The reader task, the timer and the dispatch task *)
(* are scheduled; the broker acknowledges what it was sent.                *)
(***************************************************************************)
ReaderStep ==
    \/ WriteDetect
    \/ WriteSend
    \/ WaitAckAdd
    \/ WaitAckCheck
    \/ WaitAckPark
    \/ WaitAckWake
    \/ CloseLAD
    \/ CloseDecRead
    \/ CloseDecWrite

IdleNext ==
    \/ PtyRead(FlowBufs, MaxReads)
    \/ ReaderStep
    \/ AckAdd(FlowSids, AckLens)
    \/ AckSignal
    \/ HandleTermData(FlowSids)
    \/ PtyExit
    \/ IdleExpire

IdleSpec == FlowInit /\ [][IdleNext]_vars

IdleFairSpec ==
    /\ IdleSpec
    /\ WF_vars(ReaderStep)
    /\ WF_vars(AckAdd(FlowSids, AckLens))
    /\ WF_vars(AckSignal)

\* the idle timer of a session has fired: its callback has closed the PTY
Expired == \E s \in Live : s.timer = "fired" /\ s.pty = "closed"

\* C24: the expiry of the idle timer closes the PTY, and from then on the
\* session is eventually removed from sessions, ntty decremented and
\* Logout(sid) sent, wherever the reader task is at that moment.
C24_IdleExpiryEndsSession ==
    /\ [][\A s \in Live :
            (s.timer = "armed" /\ s \notin BagToSet(terms')
               /\ \E t \in BagToSet(terms') : t.sid = s.sid /\ t.timer = "fired")
            => \E t \in BagToSet(terms') : t.sid = s.sid /\ t.pty = "closed"]_vars
    /\ Expired ~> (InMap = {} /\ ntty = 0 /\ lastFrame.type = "Logout")

\* a reader task that is at the PTY read when the timer fires does end the
\* session
IdleExpiryAtRead ==
    (\E s \in Live : s.timer = "fired" /\ s.pc = "read")
        ~> (InMap = {} /\ ntty = 0 /\ lastFrame.type = "Logout")

\* the dispatch task has answered a Login with retCode 1 below the TTY limit:
\* NewTerminal failed
SpawnFailed ==
    /\ dpc.pc = "idle"
    /\ ntty # rttyTermLimit
    /\ lastFrame'.type = "Login" /\ lastFrame'.code = 1
    /\ (lastFrame' # lastFrame \/ answered' # answered
          \/ waitingHeartbeat' # waitingHeartbeat)

HbEarly ==
    /\ heartbeatTimer.st = "armed" /\ heartbeatTimer.left = 0
    /\ hbpc = "idle"
    /\ ~waitingHeartbeat
    /\ lastHeartbeat < cfg.heartbeat
    /\ heartbeatTimer' # heartbeatTimer
    /\ dpc' = dpc

\* C27: a Heartbeat is written only when at least one period has passed since
\* the last one was sent, and the callback that writes it was started by a
\* timer that fired exactly one period after that send (or is the first of
\* the connection); a fire with the flag clear before the period is over
\* sends nothing and rearms the timer for the rest of the period; the
\* payload of a Heartbeat is one attribute: type Uptime, length 4, a 32-bit
\* value.
C27_HeartbeatSpacing ==
    /\ [][(hbpc = "send" /\ hbpc' = "flag")
            => /\ lastHeartbeat >= cfg.heartbeat
               /\ conn = "open"
                    => /\ lastFrame'.type = "Heartbeat"
                       /\ BLen(lastFrame'.data) = 7
                       /\ BAt(lastFrame'.data, 0) = MsgHeartbeatAttrUptime
                       /\ Uint16BE(lastFrame'.data, 1) = 4
                       /\ Uint32BE(lastFrame'.data, 3) \in Uptimes]_vars
    /\ [][(hbpc = "idle" /\ hbpc' = "send")
            => /\ ~waitingHeartbeat
               /\ lastHeartbeat \in {cfg.heartbeat, LongAgo}]_vars
    /\ [][HbEarly
            => /\ hbpc' = "idle"
               /\ lastFrame' = lastFrame
               /\ conn' = conn
               /\ heartbeatTimer' = [st |-> "armed",
                                     left |-> cfg.heartbeat - lastHeartbeat]]_vars
    /\ [][(lastFrame' # lastFrame /\ lastFrame'.type = "Heartbeat")
            => (hbpc = "send" /\ hbpc' = "flag")]_vars

\* the second Heartbeat of a connection with a period of 5 s has just been
\* written, 5 s after the first
C27_Witness ==
    /\ cfg.heartbeat = 5
    /\ hbpc = "flag"
    /\ lastHeartbeat = 5
    /\ lastFrame.type = "Heartbeat"
    /\ conn = "open"

\* the first frame read in this attempt was Register with status byte 0
RegisteredOk == hist.first = [typ |-> "Register", code |-> 0]

\* the dispatch task is in the loop of Run or in a handler
Dispatching ==
    dpc.pc \notin {"connect", "register", "await", "close", "close_sessions",
                   "sleep", "done", "dead"}

\* C28: in every attempt the heartbeat timer exists and the dispatch task is
\* in its loop or in a handler only after the first frame read was Register
\* with status byte 0, which starts the timer with the heartbeat period; a
\* first frame of another type or with another status byte, a read error and
\* the passing of the 5 s deadline end the attempt with no timer started and
\* no frame handled.
C28_RegisterBeforeDispatch ==
    /\ [](heartbeatTimer.st # "nil" => RegisteredOk)
    /\ [](Dispatching => RegisteredOk)
    /\ [](dpc.pc = "await" => dpc.tmp \in 0 .. RegisterDeadline)
    /\ [][(dpc.pc = "await" /\ dpc'.pc = "idle")
            => /\ RegisteredOk'
               /\ dpc.tmp > 0
               /\ heartbeatTimer' = [st |-> "armed", left |-> cfg.heartbeat]]_vars
    /\ [][(dpc.pc = "await" /\ dpc'.pc = "close")
            => /\ ~RegisteredOk'
               /\ hist'.exit \in {"first", "rejected", "missing", "read"}
               /\ hist'.exit = "missing" => dpc.tmp = 0
               /\ hist'.exit = "first" => hist'.first.typ # "Register"
               /\ hist'.exit = "rejected" => hist'.first.code # 0
               /\ heartbeatTimer'.st = "nil"
               /\ answered' = answered
               /\ terms' = terms /\ lastFrame' = lastFrame]_vars
    /\ [][(dpc.pc = "await" /\ dpc'.pc \notin {"await", "idle", "close"})
            => hbpc' = "panic"]_vars

\* the broker has answered the Register of the second attempt with status 1:
\* Close() runs, no timer, nothing handled
C28_Witness ==
    /\ hist.attempts = 2
    /\ dpc.pc = "close" /\ hist.exit = "rejected"
    /\ hist.first = [typ |-> "Register", code |-> 1]
    /\ heartbeatTimer.st = "nil"

(***************************************************************************)
(* The idle checker of a tunnel (http.go 122-161) with a clock.  Time is   *)
(* counted in steps of 1/Resolution s from the whole second before the     *)
(* tunnel is created; c.active holds Unix seconds.                         *)
(***************************************************************************)
httpTimeOut == 30
httpTickPeriod == 5
Resolution == 2
\* the clock runs up to MaxClock steps
MaxClock == 84

\* time.Time.Unix(): whole seconds
Unix(now) == now \div Resolution
\* a deadline without the timeout
ActiveNow(now) == Unix(now)
\* c.active.ActiveStore(time.Now().Add(httpTimeOut).Unix())
ActiveStore(now) == Unix(now + httpTimeOut * Resolution)

\* the tunnel of key, created at the time now with its first payload queued:
\* active is the zero value of atomic.Int64; last is the time of the last
\* read or write on the socket, tick the time to the next tick
TimedConn(key, now) ==
    [key |-> key, inMap |-> TRUE, pc |-> "dial", loop |-> FALSE, q |-> 1,
     sock |-> "none", cancelled |-> FALSE,
     now |-> now, active |-> 0, last |-> now, tick |-> 0]

Swap(t, u) == httpCons' = (httpCons \ {t}) \cup {u}

\* handleHttpMsg for a new key (http.go 50-87), at any time of the second
HandleHttpAt(keys) ==
    \E key \in keys, now \in 0 .. Resolution - 1 :
        /\ dpc = Idle
        /\ conn = "open"
        /\ httpCons = {}
        /\ httpCons' = {TimedConn(key, now)}
        /\ HandlerDone
        /\ UNCHANGED <<codecVars, cmds, inWrite, ntty, terms, lastFrame, nlogin,
                       nended, host, runVars>>

\* run: the dial succeeds; go c.loop(): time.NewTicker(5 * time.Second)
DialOkAt ==
    \E t \in httpCons :
        /\ t.pc = "dial"
        /\ Swap(t, [t EXCEPT !.pc = "run", !.loop = TRUE, !.sock = "open",
                             !.last = t.now,
                             !.tick = httpTickPeriod * Resolution])
        /\ UNCHANGED <<codecVars, cmds, inWrite, ntty, terms, dpc, lastFrame,
                       nlogin, nended, host, runVars, flagVars>>

\* 1/Resolution s passes; a tick that is due and a payload that is queued
\* are served first by the loop task
TunnelClock ==
    \E t \in httpCons :
        /\ t.inMap
        /\ t.now < MaxClock
        /\ ~(t.loop /\ t.tick = 0)
        /\ ~(t.loop /\ t.q > 0)
        /\ Swap(t, [t EXCEPT !.now = @ + 1,
                             !.tick = IF t.loop THEN @ - 1 ELSE @])
        /\ UNCHANGED <<codecVars, cmds, inWrite, ntty, terms, dpc, lastFrame,
                       nlogin, nended, host, runVars, flagVars>>

\* run: conn.Read returns n > 0 bytes; SendHttpMsg; c.active.Store
TunnelReadAt ==
    \E t \in httpCons :
        /\ t.pc = "run"
        /\ t.sock = "open"
        /\ lastFrame' = Frame("Http", t.key, 0, Rep(66, 10))
        /\ Swap(t, [t EXCEPT !.active = ActiveStore(t.now), !.last = t.now])
        /\ UNCHANGED <<codecVars, cmds, inWrite, ntty, terms, dpc, nlogin,
                       nended, host, runVars, flagVars>>

\* handleHttpMsg for the key of a tunnel that exists: conn.data <- bb
TunnelQueue ==
    \E t \in httpCons :
        /\ dpc = Idle
        /\ conn = "open"
        /\ t.inMap
        /\ t.q < MaxQueue
        /\ Swap(t, [t EXCEPT !.q = @ + 1])
        /\ HandlerDone
        /\ UNCHANGED <<codecVars, cmds, inWrite, ntty, terms, lastFrame, nlogin,
                       nended, host, runVars>>

\* loop: bb := <-c.data; c.Write(bb.B): c.active.Store, c.conn.Write
TunnelWrite ==
    \E t \in httpCons :
        /\ t.loop
        /\ t.q > 0
        /\ Swap(t, [t EXCEPT !.q = @ - 1, !.active = ActiveStore(t.now),
                             !.last = IF t.sock = "open" THEN t.now ELSE @])
        /\ UNCHANGED <<codecVars, cmds, inWrite, ntty, terms, dpc, lastFrame,
                       nlogin, nended, host, runVars, flagVars>>

\* loop: <-tick.C: if time.Now().Unix() > c.active.Load() the socket is
\* closed and the task ends; otherwise the next tick is awaited
TunnelCheck ==
    \E t \in httpCons :
        /\ t.loop
        /\ t.tick = 0
        /\ Swap(t, IF Unix(t.now) > t.active
                   THEN [t EXCEPT !.loop = FALSE, !.sock = "closed"]
                   ELSE [t EXCEPT !.tick = httpTickPeriod * Resolution])
        /\ UNCHANGED <<codecVars, cmds, inWrite, ntty, terms, dpc, lastFrame,
                       nlogin, nended, host, runVars, flagVars>>

\* the target closes the connection
TargetClose ==
    \E t \in httpCons :
        /\ t.sock = "open"
        /\ Swap(t, [t EXCEPT !.sock = "eof"])
        /\ UNCHANGED <<codecVars, cmds, inWrite, ntty, terms, dpc, lastFrame,
                       nlogin, nended, host, runVars, flagVars>>

\* run: conn.Read returns 0: the empty frame, and the deferred teardown
TunnelEofAt ==
    \E t \in httpCons :
        /\ t.pc = "run"
        /\ t.sock # "open"
        /\ lastFrame' = Frame("Http", t.key, 0, << >>)
        /\ httpCons' = httpCons \ {t}
        /\ UNCHANGED <<codecVars, cmds, inWrite, ntty, terms, dpc, nlogin,
                       nended, host, runVars, flagVars>>

TimedNext ==
    \/ HandleHttpAt(CloseKeys)
    \/ DialOkAt
    \/ TunnelClock
    \/ TunnelReadAt
    \/ TunnelQueue
    \/ TunnelWrite
    \/ TunnelCheck
    \/ TargetClose
    \/ TunnelEofAt

TimedSpec == TtyInit /\ [][TimedNext]_vars

\* the time since the last read or write on the socket, in clock steps
IdleFor(t) == t.now - t.last
\* the loop task of t serves a tick in this step, the socket open
Checked(t) ==
    /\ t.loop /\ t.sock = "open" /\ t.tick = 0
    /\ \E u \in httpCons' :
          /\ u.key = t.key /\ u.q = t.q /\ u.last = t.last
          /\ u.sock \in {"open", "closed"}
          /\ u # t
\* the checker closes the socket of t in this step
CheckerCloses(t) ==
    /\ t \in httpCons /\ t.loop /\ t.sock = "open"
    /\ \E u \in httpCons' : u.key = t.key /\ ~u.loop /\ u.sock = "closed"

EmptyHttp(key) == Frame("Http", key, 0, << >>)
\* the run task of t ends in this step
RunEnds(t) ==
    /\ t \in httpCons /\ t.pc \in {"dial", "run"}
    /\ \A u \in httpCons' : u.key = t.key => (u.pc \notin {"dial", "run"} \/ u = t)
    /\ t \notin httpCons'

\* C30: the run task of a tunnel record ends in one of two ways, each with
\* the empty-payload Http frame of its key: the dial fails, or the socket
\* read returns zero bytes, after which the key is no longer in httpCons
\* and the socket is closed; an Http frame is sent only by a record whose
\* run task has not ended, and the empty frame only in the step in which it
\* ends, so that it is the last frame of the record.
C30_OneEmptyFrame ==
    /\ [][\A t \in httpCons :
            RunEnds(t)
              => /\ lastFrame' = EmptyHttp(t.key)
                 /\ t.pc = "dial"
                      => \E u \in httpCons' : u.key = t.key /\ u.pc = "done"
                                              /\ u.sock = "none"
                 /\ t.pc = "run"
                      => \A u \in httpCons' : u.key # t.key]_vars
    /\ [][(lastFrame'.type = "Http" /\ lastFrame' # lastFrame)
            => \E t \in httpCons :
                  /\ t.key = lastFrame'.sid
                  /\ t.pc \in {"dial", "run"}
                  /\ (lastFrame'.data = << >>) <=> RunEnds(t)]_vars
    /\ [](\A t \in httpCons : t.pc = "done" => (t.sock = "none" /\ ~t.loop))

\* the socket read of tunnel 1 returned zero bytes: the empty frame is the
\* last frame, and the key is gone
C30_Witness ==
    /\ lastFrame = EmptyHttp(1)
    /\ \A t \in httpCons : t.key # 1
    /\ httpCons # {}
(***************************************************************************)
(* Uploads: the helper asks to send one of the host's files, the broker    *)
(* acknowledges or aborts.                                                 *)
(***************************************************************************)
\* transfer requests in one run of the upload handlers
MaxUploads == 2
\* 'S' requests for a short file, a file of more than two buffers and an
\* empty file
UploadBufs ==
    { Request(182, 188, 189, 83, 9, 5),
      Request(182, 188, 189, 83, 9, 6),
      Request(182, 188, 189, 83, 9, 7) }

UploadNext ==
    \/ PtyRead(UploadBufs, MaxUploads)
    \/ WriteDetect
    \/ HandleFileAck(FlowSids)
    \/ HandleFileAbort(FlowSids)

UploadSpec == FlowInit /\ [][UploadNext]_vars

\* the control message a helper receives as the n-th: the bytes left
ProgressCtl(fc, left, n) ==
    [pid |-> fc.fifo.pid, type |-> MsgTypeFileCtlProgress,
     data |-> [size |-> PutUint32LE(left), name |-> ""], n |-> n]

Entries ==
    IF InMap = {} THEN 0 ELSE BagCardinality([r \in InMap |-> terms[r]])

\* C32: when the dispatch task is between frames and no handler or reader
\* task is between the removal of an entry and its ntty--, ntty is the number
\* of entries of sessions; and ntty is 0 once Close() has returned.
C32_NttyCountsSessions ==
    /\ (dpc.pc = "idle" /\ Closing = {}) => ntty = Entries
    /\ dpc.pc \in {"sleep", "done"} => ntty = 0

(***************************************************************************)
(* Two sessions under one sid.  handleLoginMsg stores the new session with *)
(* cli.sessions.Store(sid, s) (rtty.go 328) without looking for an entry,  *)
(* and TermSession.close deletes whatever entry is stored under s.sid      *)
(* (rtty.go 465).                                                          *)
(***************************************************************************)
\* C33: every session whose PTY is open is the entry of sessions under its
\* sid, so that Logout, TermData, Winsize and Close() reach it; no Login and
\* no other session's close takes its entry away.
C33_OpenPtyStaysReachable == \A s \in Live : s.pty = "open" => s.inMap

(***************************************************************************)
(* The payload of a File frame as the reader hands it to handleFileMsg:    *)
(* sid(32), subtype(1), then the subtype's data (file_unix.go 45-61).      *)
(***************************************************************************)
\* the 32 bytes of a session id
SidBytes(sid) == Rep(48 + sid, 32)
\* the bytes of a file name of the model
NameBytes(name) == IF name = "" THEN << >> ELSE Rep(97, 1)
FileInfoPayload(sid, data) ==
    BCat(BCat(SidBytes(sid), Bytes(<< MsgTypeFileInfo >>)),
         BCat(data.size, NameBytes(data.name)))
\* ReadMsg returns the frame with this payload: it passed the length check
Passes(typ, payload) ==
    Read(RoleRtty, Write(typ, payload).bytes).err = "none"

\* C34: handling a File frame of subtype FileInfo that passed the reader's
\* length check does not end in a run-time panic.
C34_AcceptedFrameNeverPanics ==
    [][(/\ dpc.pc = "file"
        /\ Passes(MsgTypeFile, FileInfoPayload(dpc.sid, dpc.data)))
            => dpc'.pc # "dead"]_vars

(***************************************************************************)
(* The tunnel's channel c.data (capacity 100, http.go 71) between the      *)
(* dispatch task, which sends, and the loop task, which receives in its    *)
(* select and, once it has returned, in the range of its deferred function *)
(* (http.go 137-161).  Nothing closes c.data.  A tunnel object stays in    *)
(* httpCons here after run's Delete, with inMap false, because its tasks   *)
(* and its channel live on; loop is "none", "select" or "range".           *)
(***************************************************************************)
\* the tunnel objects created in one run
MaxTunnels == 1
QueueKeys == {1}

\* &RttyHttpConn{closeCh, data}, the first buffer queued, go conn.run
QueueConn(key, id) ==
    [key |-> key, id |-> id, inMap |-> TRUE, pc |-> "dial", loop |-> "none",
     q |-> 1, sock |-> "none", cancelled |-> FALSE]

\* handleHttpMsg with a payload (http.go 68-86): conn.data <- bb waits while
\* the channel holds 100 buffers
QueueRecv(keys) ==
    /\ dpc = Idle
    /\ conn = "open"
    /\ \E key \in keys :
         IF LoadCon(key) = {}
         THEN /\ Cardinality(httpCons) < MaxTunnels
              /\ httpCons' = httpCons
                    \cup {QueueConn(key, Cardinality(httpCons) + 1)}
              /\ HandlerDone
         ELSE \E t \in LoadCon(key) :
                IF t.q < httpQueueCap
                THEN /\ httpCons' = (httpCons \ {t})
                                    \cup {[t EXCEPT !.q = @ + 1]}
                     /\ HandlerDone
                ELSE /\ dpc' = [pc |-> "http_block", sid |-> key,
                                tmp |-> t.id, data |-> NoData]
                     /\ UNCHANGED <<httpCons, flagVars>>
    /\ UNCHANGED <<codecVars, cmds, inWrite, ntty, terms, lastFrame, nlogin,
                   nended, host, runVars>>

\* the send goes through: a receiver has taken a buffer
QueueUnblock ==
    /\ dpc.pc = "http_block"
    /\ \E t \in httpCons :
         /\ t.id = dpc.tmp
         /\ t.q < httpQueueCap
         /\ httpCons' = (httpCons \ {t}) \cup {[t EXCEPT !.q = @ + 1]}
    /\ HandlerDone
    /\ UNCHANGED <<codecVars, cmds, inWrite, ntty, terms, lastFrame, nlogin,
                   nended, host, runVars>>

\* run: the dial succeeds; c.conn = conn; defer ...; go c.loop()
QueueDialOk ==
    \E t \in httpCons :
        /\ t.pc = "dial"
        /\ httpCons' = (httpCons \ {t})
                       \cup {[t EXCEPT !.pc = "run", !.loop = "select",
                                       !.sock = "open"]}
        /\ UNCHANGED <<codecVars, cmds, inWrite, ntty, terms, dpc, lastFrame,
                       nlogin, nended, host, runVars, flagVars>>

\* run: conn.Read returns 0; the empty frame; the deferred function deletes
\* the key, closes closeCh and closes the socket; run returns
QueueEof ==
    \E t \in httpCons :
        /\ t.pc = "run"
        /\ lastFrame' = Frame("Http", t.key, 0, << >>)
        /\ httpCons' = (httpCons \ {t})
                       \cup {[t EXCEPT !.pc = "done", !.inMap = FALSE,
                                       !.sock = "closed"]}
        /\ UNCHANGED <<codecVars, cmds, inWrite, ntty, terms, dpc, nlogin,
                       nended, host, runVars, flagVars>>

\* loop, case bb := <-c.data: c.Write(bb.B); bytebufferpool.Put(bb)
LoopWrite ==
    \E t \in httpCons :
        /\ t.loop = "select"
        /\ t.q > 0
        /\ httpCons' = (httpCons \ {t}) \cup {[t EXCEPT !.q = @ - 1]}
        /\ UNCHANGED <<codecVars, cmds, inWrite, ntty, terms, dpc, lastFrame,
                       nlogin, nended, host, runVars, flagVars>>

\* loop, case <-tick.C with the deadline passed: c.conn.Close(); return, and
\* the deferred function begins
LoopTick ==
    \E t \in httpCons :
        /\ t.loop = "select"
        /\ httpCons' = (httpCons \ {t})
                       \cup {[t EXCEPT !.loop = "range", !.sock = "closed"]}
        /\ UNCHANGED <<codecVars, cmds, inWrite, ntty, terms, dpc, lastFrame,
                       nlogin, nended, host, runVars, flagVars>>

\* loop, case <-c.closeCh: return, and the deferred function begins
LoopCloseCh ==
    \E t \in httpCons :
        /\ t.loop = "select"
        /\ t.pc = "done"
        /\ httpCons' = (httpCons \ {t}) \cup {[t EXCEPT !.loop = "range"]}
        /\ UNCHANGED <<codecVars, cmds, inWrite, ntty, terms, dpc, lastFrame,
                       nlogin, nended, host, runVars, flagVars>>

\* the deferred function: for bb := range c.data { bytebufferpool.Put(bb) };
\* with the channel empty and not closed the range waits
LoopRange ==
    \E t \in httpCons :
        /\ t.loop = "range"
        /\ t.q > 0
        /\ httpCons' = (httpCons \ {t}) \cup {[t EXCEPT !.q = @ - 1]}
        /\ UNCHANGED <<codecVars, cmds, inWrite, ntty, terms, dpc, lastFrame,
                       nlogin, nended, host, runVars, flagVars>>

\* the end of a dial, which has a 3 s timeout
QueueDialEnd == DialFail \/ QueueDialOk

QueueNext ==
    \/ QueueRecv(QueueKeys)
    \/ QueueUnblock
    \/ DialFail
    \/ QueueDialOk
    \/ TunnelRead
    \/ QueueEof
    \/ LoopWrite
    \/ LoopTick
    \/ LoopCloseCh
    \/ LoopRange

QueueSpec == TtyInit /\ [][QueueNext]_vars

\* every task that can take a step takes one: the dial ends, the loop task
\* receives, a send that can go through does
QueueFairSpec ==
    /\ QueueSpec
    /\ WF_vars(QueueDialEnd)
    /\ WF_vars(QueueUnblock)
    /\ WF_vars(LoopWrite)
    /\ WF_vars(LoopCloseCh)
    /\ WF_vars(LoopRange)

\* C35: a dispatch task that waits in handleHttpMsg to queue a payload goes
\* on, and is between frames again.
C35_HttpEnqueueReturns == (dpc.pc = "http_block") ~> (dpc.pc = "idle")

\* a send that waits on a tunnel whose loop task was started goes through
EnqueueReturnsWithLoop ==
    (dpc.pc = "http_block"
       /\ \E t \in httpCons : t.id = dpc.tmp /\ t.loop # "none")
    ~> (dpc.pc = "idle")

\* C40: after a tunnel was torn down its loop task, which is then in the
\* range of its deferred function, ends.
C40_WriterTaskEnds ==
    (\E t \in httpCons : t.loop = "range")
        ~> (\A t \in httpCons : t.loop # "range")

\* the loop task that has returned takes the queued buffers
QueuedBuffersReturned ==
    \A n \in 1 .. httpQueueCap :
        (\E t \in httpCons : t.loop = "range" /\ ~t.inMap /\ t.q = n)
            ~> (\E t \in httpCons : t.loop = "range" /\ t.q < n)

(***************************************************************************)
(* detect on the reader task, step by step (file_unix.go 106-193): the     *)
(* probes, ctx.fifo = fifo and the frame sent to the broker; then, for an  *)
(* 'R' request, RequestAccept on the FIFO; then ctx.busy = true.  The File *)
(* handlers of the dispatch task take no lock and may run between the      *)
(* frame and the last assignment.                                          *)
(***************************************************************************)
\* detect up to SendFileMsg (line 160 for 'R', line 257 in startUpload)
DetectBegin ==
    \E s \in Live :
        /\ s.pc = "write"
        /\ IsMagic(s.buf)
        /\ \E env \in Probes :
             LET d == detected(s, s.buf, env, host, lastFrame)
                 accepted == d.fc.busy /\ ~s.fc.busy
                 recv == BAt(s.buf, 3) = DirRecv
             IN IF accepted
                THEN /\ terms' = Upd(terms, s,
                           [s EXCEPT !.pc = "detect_busy",
                                     !.fc = [d.fc EXCEPT !.busy = FALSE],
                                     !.timer = active(s.timer)])
                     /\ host' = IF recv THEN host ELSE d.h
                     /\ lastFrame' = d.f
                ELSE /\ terms' = Upd(terms, s,
                           [s EXCEPT !.pc = "read", !.fc = d.fc,
                                     !.timer = active(s.timer)])
                     /\ host' = d.h
                     /\ lastFrame' = d.f
        /\ UNCHANGED <<codecVars, sideVars, ntty, dpc, nlogin, nended, runVars,
                       flagVars>>

\* the rest of detect: sendControlMsg(RequestAccept) of an 'R' request, and
\* ctx.busy = true (line 190)
DetectSetBusy ==
    \E s \in Live :
        /\ s.pc = "detect_busy"
        /\ host' = IF BAt(s.buf, 3) = DirRecv
                   THEN sendControlMsg(s.fc, host, MsgTypeFileCtlRequestAccept,
                                       NoData)
                   ELSE host
        /\ terms' = Upd(terms, s, [s EXCEPT !.pc = "read", !.fc.busy = TRUE])
        /\ UNCHANGED <<codecVars, sideVars, ntty, dpc, lastFrame, nlogin,
                       nended, runVars, flagVars>>

DetectNext ==
    \/ PtyRead(FileBufs, MaxTransfers)
    \/ DetectBegin
    \/ DetectSetBusy
    \/ ReadFileInfo(FlowSids, FileInfoFrames)
    \/ HandleFileInfo
    \/ HandleFileData(FlowSids, FileDataLens)
    \/ HandleFileAck(FlowSids)
    \/ HandleFileAbort(FlowSids)

DetectSpec == FlowInit /\ [][DetectNext]_vars

\* C36: a file context that is busy holds the FIFO handle of a transfer: after
\* a reset (both handles nil) it is not busy until a request is detected.
C36_BusyOnlyDuringTransfer ==
    \A s \in Live : s.fc.busy => s.fc.fifo.st # "nil"

(***************************************************************************)
(* A download whose FileData frames carry more bytes than FileInfo         *)
(* announced (file_unix.go 63-80).                                         *)
(***************************************************************************)
\* frames shorter and longer than what is left of a file of 5 or 10 bytes
OverrunLens == {0, 4, 5, 6}

OverrunNext ==
    \/ PtyRead(DataBufs, MaxDataReads)
    \/ WriteDetect
    \/ ReadFileInfo(FlowSids, DataInfos)
    \/ HandleFileInfo
    \/ HandleFileData(FlowSids, OverrunLens)

OverrunSpec == FlowInit /\ [][OverrunNext]_vars

\* C37: while a download's target file is open, remainSize is between 1 and
\* totalSize: it has not wrapped (a wrapped value 2^32 + v is held as v < 0),
\* and the download was reset when it reached 0.
C37_RemainWithinTotal ==
    \A s \in Live :
        s.fc.file.mode = "w"
            => (0 < s.fc.remainSize /\ s.fc.remainSize <= s.fc.totalSize)

(***************************************************************************)
(* handleFileMsg looks at the subtype alone (file_unix.go 59-88): it tests *)
(* neither ctx.busy nor the direction of the transfer.                     *)
(***************************************************************************)
\* C38: a FileInfo frame handled for a session whose file context is not
\* busy creates no file and opens none.
C38_FileInfoOnlyWhenBusy ==
    [][\A s \in Live :
        (/\ dpc.pc = "file" /\ dpc'.pc = "idle"
         /\ s \in Load(dpc.sid)
         /\ ~s.fc.busy)
            => /\ host'.created = host.created
               /\ \A s2 \in BagToSet(terms') : s2.fc.file = NoFile]_vars


(***************************************************************************)
(* Close() against the heartbeat callback (rtty.go 223-230, 263-288).      *)
(* Close() holds cli.mu while it clears the flag, stops the timer and      *)
(* sets the field to nil; the callback takes no lock, and Stop does not    *)
(* wait for a callback that has begun.                                     *)
(***************************************************************************)
\* the deferred function of Run is past Close(), and startHeartbeat has not
\* been called since
CloseReturned ==
    \/ dpc.pc \in {"sleep", "done"}
    \/ /\ hist.attempts > 1
       /\ dpc.pc \in {"connect", "register", "await"}

\* C39: the callback leaves its last statement, heartbeatTimer.Reset, only
\* with a timer in the field; and from the return of Close() to the next
\* startHeartbeat no Heartbeat frame is written, the flag stays clear and no
\* heartbeat timer is armed.
C39_CallbackQuietAfterClose ==
    /\ [][(hbpc = "flag" /\ hbpc' # "flag") => heartbeatTimer.st # "nil"]_vars
    /\ [][CloseReturned
            => ~(hbpc = "send" /\ hbpc' = "flag" /\ conn = "open")]_vars
    /\ [](CloseReturned => (~waitingHeartbeat /\ heartbeatTimer.st = "nil"))
====
